---- MODULE Spec2Model ----
(***************************************************************************)
(* State-machine model of the rlm_mcts backbone:                           *)
(*   - MCTSReasoningTree (backend/mcts_engine.py), the transcript engine,  *)
(*   - MCTSRubricTree (rubric-discovery/backend/mcts_engine.py),           *)
(*   - REPLEnv (backend/repl_env.py), the transcript sandbox.              *)
(* Values and rewards are fixed-point numbers in tenths; UCB scores are    *)
(* fixed-point numbers in millionths.                                      *)
(***************************************************************************)
EXTENDS Integers, Sequences, FiniteSets, TLC

\* ------------------------------------------------------------------ bounds
\* largest max_iterations an engine is constructed with
MaxIterations == 3
\* largest max_depth an engine is constructed with
MaxDepth == 3
\* largest max_iterations in the runs checked for progress
MaxLiveIterations == 2
MaxExecutes == 2
MaxResults == 3
MaxParts == 4

\* ------------------------------------------------------- program constants
\* code_blocks[:3] in _expand_question
RootSeedCap == 3
\* code_blocks[:2] in _expand_with_history
FollowSeedCap == 2
\* float("inf") of ucb_score, above every finite score
Inf == 1000000000
\* one unit of value (1.0) in millionths
Scale == 1000000
\* parent_id of the root (None)
None == 0

Min(a, b) == IF a < b THEN a ELSE b
Max(a, b) == IF a > b THEN a ELSE b

\* scalars a value_fn reply can be clamped to, in tenths (0.0 and 1.0)
Values == {0, 10}
\* numbers of code blocks found in the policy replies that are drawn
ReplySizes == {1, 2}
\* value of the root, in tenths (0.5)
RootValue == 5

VARIABLES
    engine,          \* which engine this run constructs
    nodes,           \* MCTSReasoningTree.nodes : id -> ReasoningNode
    max_iterations,  \* constructor parameter
    max_depth,       \* constructor parameter
    pc,              \* position of search()
    iter,            \* completed iterations of the for loop
    leaf_id,         \* local leaf_id of search()
    pending,         \* children returned by policy_fn, not yet processed
    registered,      \* local registered of _expand()
    value,           \* local value of search()
    emitted,         \* last (node, snapshot) handed to on_node, and how many
    result,          \* (answer, confidence) of _synthesize_answer
    calls,           \* how often each collaborator has been called
    expansions,      \* how often policy_fn has been called on each node
    worker,          \* the executor thread running REPLEnv.execute
    branch_messages, \* MCTSReasoningTree.branch_messages : id -> list of messages
    messages,        \* local messages of _expand()
    rnodes,          \* MCTSRubricTree.nodes : id -> RubricNode
    rpc,             \* position of run()
    riter,           \* local iteration of run()
    rleaf,           \* local leaf of run()
    rpending,        \* code_candidates of _expand(), not yet created
    rchildren,       \* local children of run() / _expand()
    rdone,           \* children of this iteration already back-propagated
    best_node,       \* MCTSRubricTree.best_node
    repl_locals,     \* REPLEnv._locals : name -> value
    repl_globals,    \* names bound in REPLEnv._globals by imports
    llm_call_count,  \* REPLEnv._llm_call_count
    sys_stdout,      \* sys.stdout: 0 the process's own, w the buffer of thread w
    sys_stderr,      \* sys.stderr, likewise
    threads,         \* the executor threads running execute(), by invocation
    awaited,         \* the invocation execute_async is waiting for, or 0
    returned,        \* the results execute_async has returned, in order
    answer_children, \* per executed code node: the content of its answer child
    args,            \* the input drawn for a call of a pure function
    ret,             \* what the call returned
    request,         \* the message websocket_endpoint has received
    ws_pc,           \* position of websocket_endpoint
    sent,            \* the events ws.send_json has sent, in order
    mcts_pc,         \* position of the tree.search() the endpoint runs
    mcts_iter,       \* completed iterations of that search
    plain_pc,        \* position of plain_rlm_search()
    llm_calls,       \* local llm_calls of plain_rlm_search
    steps,           \* local steps of plain_rlm_search
    plain_log,       \* what plain_rlm_search has done so far, in order
    videos,          \* main.videos, the process-wide store: the ids it holds
    temp_dirs        \* directories made by tempfile.mkdtemp and still there

reasoning == <<nodes, pc, iter, leaf_id, pending, registered, value, emitted,
               result, calls, expansions, worker>>
rubric == <<rnodes, rpc, riter, rleaf, rpending, rchildren, rdone, best_node>>
params == <<engine, max_iterations, max_depth>>
history == <<branch_messages, messages>>
sandbox == <<repl_locals, repl_globals, llm_call_count, sys_stdout, sys_stderr,
             threads,
             awaited, returned, answer_children>>
pure == <<args, ret>>
serving == <<request, ws_pc, sent, mcts_pc, mcts_iter, plain_pc, llm_calls,
             steps, plain_log, videos, temp_dirs>>
vars == <<params, history, reasoning, rubric, sandbox, pure, serving>>

\* ------------------------------------------------------------ ReasoningNode
ReasoningNode(type, parent, d, code) ==
    [node_type |-> type, parent_id |-> parent, children |-> <<>>,
     visits |-> 0, total_value |-> 0, depth |-> d, code |-> code,
     repl_stdout |-> "", repl_stderr |-> "", content |-> "seed",
     timed_out |-> FALSE]

\* c * sqrt(ln(parent_visits) / visits) in millionths, c = 1.414,
\* indexed [parent_visits][visits]
Exploration == <<
  <<0, 0, 0, 0, 0, 0, 0, 0, 0, 0, 0, 0, 0, 0, 0, 0>>,
  <<1177232, 832429, 679675, 588616, 526474, 480603, 444952, 416214, 392411, 372274, 354949, 339838, 326505, 314629, 303960, 294308>>,
  <<1482080, 1047989, 855679, 741040, 662806, 605057, 560174, 523994, 494027, 468675, 446864, 427840, 411055, 396103, 382671, 370520>>,
  <<1664858, 1177232, 961206, 832429, 744547, 679675, 629257, 588616, 554953, 526474, 501974, 480603, 461748, 444952, 429864, 416214>>,
  <<1793852, 1268445, 1035681, 896926, 802235, 732337, 678012, 634222, 597951, 567266, 540867, 517840, 497525, 479427, 463171, 448463>>,
  <<1892733, 1338364, 1092770, 946366, 846456, 772705, 715386, 669182, 630911, 598535, 570680, 546385, 524950, 505854, 488701, 473183>>,
  <<1972472, 1394748, 1138807, 986236, 882116, 805258, 745524, 697374, 657491, 623750, 594723, 569404, 547065, 527165, 509290, 493118>>,
  <<2039026, 1441809, 1177232, 1019513, 911880, 832429, 770679, 720905, 679675, 644797, 614789, 588616, 565524, 544953, 526474, 509757>>,
  <<2095978, 1482080, 1210113, 1047989, 937350, 855679, 792205, 741040, 698659, 662806, 631961, 605057, 581320, 560174, 541179, 523994>>,
  <<2145642, 1517198, 1238787, 1072821, 959560, 875955, 810976, 758599, 715214, 678512, 646935, 619393, 595094, 573447, 554002, 536410>>,
  <<2189599, 1548280, 1264165, 1094799, 979218, 893900, 827590, 774140, 729866, 692412, 660189, 632083, 607285, 585195, 565352, 547400>>,
  <<2228971, 1576121, 1286897, 1114486, 996826, 909974, 842472, 788060, 742990, 704863, 672060, 643449, 618205, 595718, 575518, 557243>>,
  <<2264586, 1601304, 1307459, 1132293, 1012754, 924513, 855933, 800652, 754862, 716125, 682798, 653730, 628083, 605236, 584714, 566146>>,
  <<2297068, 1624272, 1326213, 1148534, 1027280, 937774, 868210, 812136, 765689, 726397, 692592, 663106, 637092, 613917, 593100, 574267>>,
  <<2326900, 1645367, 1343436, 1163450, 1040621, 949953, 879486, 822683, 775633, 735830, 701587, 671718, 645366, 621890, 600803, 581725>>,
  <<2354464, 1664858, 1359351, 1177232, 1052949, 961206, 889904, 832429, 784821, 744547, 709898, 679675, 653011, 629257, 607920, 588616>>
>>

\* mutant of ucb_score: an unvisited node scores 0 instead of infinity
ucb_score_unvisited_zero(n, parent_visits) ==
    IF n.visits = 0
    THEN 0
    ELSE (n.total_value * (Scale \div 10)) \div n.visits
         + Exploration[parent_visits][n.visits]

\* ReasoningNode.ucb_score, in millionths
ucb_score(n, parent_visits) ==
    IF n.visits = 0
    THEN Inf
    ELSE (n.total_value * (Scale \div 10)) \div n.visits
         + Exploration[parent_visits][n.visits]

\* mutant of parent_visits: the visit count is passed as it is
select_parent_visits_unfloored(n) == n.visits

\* _select: parent_visits = max(node.visits, 1)
select_parent_visits(n) == Max(n.visits, 1)

\* max(node.children, key = ucb_score): the first child of maximal score
BestChild(tree, nid) ==
    LET cs == tree[nid].children
        pv == select_parent_visits(tree[nid])
        score(i) == ucb_score(tree[cs[i]], pv)
        best == CHOOSE i \in 1..Len(cs) :
                    /\ \A j \in 1..Len(cs) : score(j) <= score(i)
                    /\ \A j \in 1..(i - 1) : score(j) < score(i)
    IN cs[best]

RECURSIVE select(_, _)
\* MCTSReasoningTree._select
select(tree, nid) ==
    IF tree[nid].children = <<>> THEN nid ELSE select(tree, BestChild(tree, nid))

RECURSIVE backpropagate_below_root(_, _, _)
\* mutant of backpropagate: the walk stops before the root
backpropagate_below_root(tree, current_id, v) ==
    IF tree[current_id].parent_id = None
    THEN tree
    ELSE backpropagate_below_root(
             [tree EXCEPT ![current_id].visits = @ + 1,
                          ![current_id].total_value = @ + v],
             tree[current_id].parent_id, v)

RECURSIVE backpropagate(_, _, _)
\* MCTSReasoningTree._backpropagate
backpropagate(tree, current_id, v) ==
    IF current_id = None
    THEN tree
    ELSE backpropagate(
             [tree EXCEPT ![current_id].visits = @ + 1,
                          ![current_id].total_value = @ + v],
             tree[current_id].parent_id, v)

\* the node map with one more key
Put(tree, id, n) == [i \in DOMAIN tree \cup {id} |-> IF i = id THEN n ELSE tree[i]]

\* uuid4().hex[:8]: an id no node carries yet
make_id(tree) == Cardinality(DOMAIN tree) + 1

\* ---------------------------------------------------------- branch messages
\* A message of a branch history: its role, what its content is made of
\* (the code of a node, or the captured stdout and stderr of its execution),
\* and the id of the node it was made from
Message(role, content, nid) == [role |-> role, content |-> content, node |-> nid]

RECURSIVE NearestWithMessages(_, _, _)
\* _get_branch_messages: the deepest node of the path from the root to cid
\* that is a key of branch_messages (None if there is none)
NearestWithMessages(tree, stored, cid) ==
    IF cid = None THEN None
    ELSE IF cid \in DOMAIN stored THEN cid
    ELSE NearestWithMessages(tree, stored, tree[cid].parent_id)

\* MCTSReasoningTree._get_branch_messages
get_branch_messages(tree, stored, node_id) ==
    LET nid == NearestWithMessages(tree, stored, node_id)
    IN IF nid = None THEN <<>> ELSE stored[nid]

\* mutant of child_msgs: the pair of the child is not appended
child_msgs_without_pair(msgs, child, cid) == msgs

\* _expand(): child_msgs, a copy of messages with the pair of the child
\* appended when the child carries code
child_msgs(msgs, child, cid) ==
    IF child.code # ""
    THEN msgs \o <<Message("assistant", child.code, cid),
                   Message("user", <<child.repl_stdout, child.repl_stderr>>, cid)>>
    ELSE msgs

\* ------------------------------------------------------------------ policy
CodeSeed == [node_type |-> "code", code |-> "src"]
StrategySeed == [node_type |-> "strategy", code |-> ""]

\* replies of policy_network.expand_node for a node of the given type
expand_node(type) ==
    LET blocks(cap) == {[i \in 1..Min(cap, k) |-> CodeSeed] : k \in ReplySizes}
    IN CASE type = "question" -> blocks(RootSeedCap) \cup {<<StrategySeed>>}
         [] type \in {"strategy", "code", "result"} ->
                blocks(FollowSeedCap) \cup {<<StrategySeed>>}
         [] OTHER -> {<<>>}

\* ----------------------------------------------------------------- sandbox
\* mutant of TimeoutResult: the output printed so far is returned
TimeoutResultWithOutput == [success |-> FALSE, stdout |-> "out", stderr |-> "timed out"]

\* results of REPLEnv.execute_async as _expand reads them
TimeoutResult == [success |-> FALSE, stdout |-> "", stderr |-> "timed out"]
CompletedResults == {[success |-> TRUE, stdout |-> "out", stderr |-> ""]}

\* =============================================================== rubric
\* composite rewards evaluate_rubric can return, in tenths
Rewards == {2, 8}

RubricNode(type, parent, d) ==
    [node_type |-> type, depth |-> d, visits |-> 0, reward_composite |-> 0,
     total_reward |-> 0, parent_id |-> parent, children_ids |-> <<>>]

\* RubricNode.ucb_score, in millionths
rubric_ucb_score(n, parent_visits) ==
    IF n.visits = 0
    THEN Inf
    ELSE (n.total_reward * (Scale \div 10)) \div n.visits
         + Exploration[parent_visits][n.visits]

\* MCTSRubricTree._select: current.visits or 1
rubric_parent_visits(n) == IF n.visits # 0 THEN n.visits ELSE 1

\* max(children, key = ucb_score) of MCTSRubricTree._select
RubricBestChild(tree, nid) ==
    LET cs == tree[nid].children_ids
        pv == rubric_parent_visits(tree[nid])
        score(i) == rubric_ucb_score(tree[cs[i]], pv)
        best == CHOOSE i \in 1..Len(cs) :
                    /\ \A j \in 1..Len(cs) : score(j) <= score(i)
                    /\ \A j \in 1..(i - 1) : score(j) < score(i)
    IN cs[best]

RECURSIVE rubric_select(_, _, _)
\* MCTSRubricTree._select
rubric_select(tree, current, maxDepth) ==
    IF tree[current].children_ids # <<>> /\ tree[current].depth < maxDepth
    THEN LET best_child == RubricBestChild(tree, current)
         IN IF tree[best_child].visits = 0
            THEN best_child
            ELSE rubric_select(tree, best_child, maxDepth)
    ELSE current

RECURSIVE rubric_backpropagate(_, _, _)
\* MCTSRubricTree._backpropagate
rubric_backpropagate(tree, current_id, reward) ==
    IF current_id = None
    THEN tree
    ELSE rubric_backpropagate(
             [tree EXCEPT ![current_id].visits = @ + 1,
                          ![current_id].total_reward = @ + reward],
             tree[current_id].parent_id, reward)

\* numbers of hypotheses _parse_hypotheses extracts from a policy reply
parse_hypotheses == ReplySizes

\* ------------------------------------------------- REPLEnv (transcript sandbox)
\* Values of sandbox variables are numbers: the integers the programs assign,
\* Transcript for the transcript string given at construction, Module for an
\* imported module or a built-in function, Unbound for a name with no binding.
Unbound == -1
Transcript == 9
TranscriptLen == 5
Module == 6
max_llm_calls == 3
\* the import allowlist of the rubric sandbox (_safe_builtins); the transcript
\* sandbox runs import lines with the interpreter's own __import__
ALLOWED_MODULES == {"re", "json", "math", "string", "collections", "functools",
                    "itertools"}

Names == {"x", "_t", "context", "re", "os"}
\* key.startswith("_")
startswith_underscore(name) == name = "_t"
\* Big is a string of BigLen characters that executed code builds and prints,
\* Empty the empty string
Big == 99
BigLen == 3000
Empty == 98
\* no match of the marker, or no value: _check_final_var returns None
NoAnswer == -2
\* the cuts applied to outputs: r[:200] of a repr in execute(), and
\* result.stdout[:2000] in _expand()
ReprLimit == 200
StdoutLimit == 2000
\* isinstance(v, str), and len(str(v)) and len(repr(v)) for the values above
IsStr(v) == v \in {Transcript, Big, Empty}
len(v) ==
    IF v = Transcript THEN TranscriptLen
    ELSE IF v = Big THEN BigLen
    ELSE IF v = Empty THEN 0 ELSE 1
\* str(v): a string is itself, a number n is its numeral, written 100 + n
str(v) == IF IsStr(v) THEN v ELSE 100 + v
repr_len(v) == IF IsStr(v) THEN len(v) + 2 ELSE len(v)

Stmt(op, name, val) == [op |-> op, name |-> name, val |-> val]
\* the code blocks handed to execute_async
Programs == {
    <<Stmt("assign", "x", 1), Stmt("print", "x", 0)>>,      \* x = 1; print(x)
    <<Stmt("print", "x", 1)>>,                              \* print(x + 1)
    <<Stmt("assign", "_t", 1)>>,                            \* _t = 1
    <<Stmt("assign", "context", 0)>>,                       \* context = 0
    <<Stmt("import", "re", 0), Stmt("assign", "x", 2)>>,    \* import re; x = 2
    <<Stmt("import", "os", 0)>>,                            \* import os
    <<Stmt("assign", "x", Big), Stmt("print", "x", 0)>>,    \* x = 'a' * 3000; print(x)
    <<Stmt("assign", "x", 1), Stmt("final", "x", 0)>>,      \* x = 1; FINAL_VAR("x")
    <<Stmt("assign", "x", Empty), Stmt("final", "x", 0)>>,  \* x = ''; FINAL_VAR("x")
    <<Stmt("assign", "x", 2), Stmt("raise", "", 0)>>,       \* x = 2; raise ...
    <<Stmt("assign", "x", 1), Stmt("print", "x", 0),        \* x = 1; print(x);
      Stmt("raise", "", 0)>>,                               \*   raise ...
    <<Stmt("exit", "", 0)>>,                                \* raise SystemExit
    <<Stmt("final", "x", 0), Stmt("raise", "", 0)>>,        \* FINAL_VAR("x"); raise ...
    <<Stmt("import", "re", 0), Stmt("raise", "", 0)>>,      \* import re; raise ...
    <<Stmt("llm", "", 0), Stmt("llm", "", 0),               \* llm_query(...) x 4
      Stmt("llm", "", 0), Stmt("llm", "", 0)>> }

RECURSIVE LinesOf(_, _)
\* the lines of code whose kind is in ops, in order
LinesOf(code, ops) ==
    IF code = <<>> THEN <<>>
    ELSE (IF Head(code).op \in ops THEN <<Head(code)>> ELSE <<>>)
         \o LinesOf(Tail(code), ops)

import_lines(code) == LinesOf(code, {"import"})
other_lines(code) ==
    LinesOf(code, {"assign", "print", "llm", "raise", "final", "exit"})

\* {**self._globals, **self._locals}
Combined(globals, locals) ==
    [n \in Names |->
        IF locals[n] # Unbound THEN locals[n]
        ELSE IF n \in globals THEN Module ELSE Unbound]

\* the loop "Persist new variables" of execute()
Persist(globals, locals, combined) ==
    [n \in Names |->
        IF combined[n] # Unbound /\ n \notin globals /\ ~startswith_underscore(n)
        THEN combined[n] ELSE locals[n]]

\* REPLEnv.context_length
context_length(locals) ==
    IF IsStr(locals["context"]) THEN len(locals["context"]) ELSE 0

\* REPLEnv.get_variable
get_variable(globals, locals, name) ==
    IF locals[name] # Unbound THEN locals[name]
    ELSE IF name \in globals THEN Module ELSE Unbound

\* re.search(r"FINAL_VAR\(([^)]+)\)", ...) on the code: the name in the first
\* marker, quotes stripped, or "" when there is no marker (the programs above
\* print no marker)
marker(code) ==
    LET at == {i \in DOMAIN code : code[i].op = "final"}
    IN IF at = {} THEN ""
       ELSE code[CHOOSE i \in at : \A j \in at : i <= j].name

\* MCTSReasoningTree._check_final_var
check_final_var(code, globals, locals) ==
    IF marker(code) # "" /\ get_variable(globals, locals, marker(code)) # Unbound
    THEN str(get_variable(globals, locals, marker(code)))
    ELSE NoAnswer

\* _expand(): "if final:" creates the answer child; an empty string is false
answer_child(final) == IF final # NoAnswer /\ final # Empty THEN final ELSE NoAnswer

\* a call of execute() handed to the executor by execute_async
NewThread(code) ==
    [code |-> code, pos |-> 0, status |-> "submitted",
     combined |-> [n \in Names |-> Unbound], persist |-> FALSE,
     old_stdout |-> 0, old_stderr |-> 0, stdout_buf |-> <<>>, success |-> TRUE,
     asked |-> 0, reached |-> 0, wrote |-> {}, imports |-> {},
     end_value |-> Unbound, exited |-> FALSE]

\* the "Safe snapshot" of execute(): the length of the repr kept for each
\* variable shown (0 for a name that is skipped or unbound)
locals_snap(locals) ==
    [n \in Names |->
        IF startswith_underscore(n) \/ n = "context" \/ locals[n] = Unbound
        THEN 0
        ELSE Min(repr_len(locals[n]), ReprLimit)]

\* REPLResult of execute(); raised is FALSE for a result that is returned
REPLResult(t, locals) ==
    [success |-> t.success, stdout |-> t.stdout_buf,
     stderr |-> IF t.success THEN "" ELSE "Traceback",
     locals_snapshot |-> locals_snap(locals), raised |-> FALSE]

\* no REPLResult: execute() ended with an exception that `except Exception`
\* does not catch, and awaiting the executor's future raises it in the caller
Raised ==
    [success |-> FALSE, stdout |-> <<>>, stderr |-> "",
     locals_snapshot |-> [n \in Names |-> 0], raised |-> TRUE]

\* REPLResult of execute_async() on asyncio.TimeoutError
TimedOutResult ==
    [success |-> FALSE, stdout |-> <<>>, stderr |-> "timed out",
     locals_snapshot |-> [n \in Names |-> 0], raised |-> FALSE]

\* REPLEnv.__init__
SandboxInit ==
    /\ repl_locals = [n \in Names |-> IF n = "context" THEN Transcript ELSE Unbound]
    /\ repl_globals = {}
    /\ llm_call_count = 0
    /\ sys_stdout = 0
    /\ sys_stderr = 0
    /\ threads = <<>>
    /\ awaited = 0
    /\ returned = <<>>
    /\ answer_children = <<>>

\* ============================================================== evaluators
\* The evaluators are pure functions.  A reward scalar of the rubric
\* evaluators is a fixed-point number in hundredths (One is 1.0); a result is
\* a pair <<predicted, actual>> of such numbers.
One == 100
Grid == {0, 50, 100}
ResultPairs == {<<p, a>> : p \in Grid, a \in {0, 100}}
Lists(S, n) == UNION {[1..k -> S] : k \in 0..n}

RECURSIVE Sum(_)
Sum(seq) == IF seq = <<>> THEN 0 ELSE Head(seq) + Sum(Tail(seq))
Abs(x) == IF x < 0 THEN -x ELSE x
\* max(0, min(1.0, x))
clamp(x) == Max(0, Min(One, x))
\* math.sqrt on squares of hundredths, rounded down
sqrt(n) == CHOOSE r \in 0..(2 * One) : r * r <= n /\ n < (r + 1) * (r + 1)

\* reward_signals._mae
mae(results) ==
    IF results = <<>> THEN One
    ELSE Sum([k \in DOMAIN results |-> Abs(results[k][1] - results[k][2])])
         \div Len(results)

\* reward_signals._std
std(values) ==
    IF Len(values) < 2 THEN 0
    ELSE LET mean == Sum(values) \div Len(values)
         IN sqrt(Sum([k \in DOMAIN values |-> (values[k] - mean) * (values[k] - mean)])
                 \div (Len(values) - 1))

\* reward_signals._rank, doubled so that the average rank of ties is whole:
\* 2 * (i + j + 1) / 2 with i values below and j values not above
rank(values) ==
    [k \in DOMAIN values |->
        LET i == Cardinality({m \in DOMAIN values : values[m] < values[k]})
            j == Cardinality({m \in DOMAIN values : values[m] <= values[k]})
        IN i + j + 1]

\* reward_signals.generalization_reward
generalization_reward(train_results, eval_results) ==
    IF train_results = <<>> \/ eval_results = <<>> THEN 0
    ELSE LET train_mae == mae(train_results)
             eval_mae == mae(eval_results)
             gap == Max(0, eval_mae - train_mae)
             eval_accuracy == Max(0, One - eval_mae)
         IN IF train_mae = 0 /\ eval_mae = 0 THEN One
            ELSE clamp((eval_accuracy * (One - Min(gap, One))) \div One)

\* reward_signals.calibration_reward
calibration_reward(results) ==
    IF results = <<>> THEN 0
    ELSE LET actuals == [k \in DOMAIN results |-> results[k][2]]
             preds == [k \in DOMAIN results |-> results[k][1]]
             mean_diff == Abs(Sum(actuals) \div Len(actuals)
                              - Sum(preds) \div Len(preds))
             actual_std == std(actuals)
             pred_std == std(preds)
             std_ratio == IF Max(pred_std, actual_std) = 0 THEN 0
                          ELSE (Min(pred_std, actual_std) * One)
                               \div Max(pred_std, actual_std)
         IN clamp(((One - Min(mean_diff, One)) * 6 + std_ratio * 4) \div 10)

\* mutant of discrimination_reward: four results are needed, not three
discrimination_reward_min4(results) ==
    IF Len(results) < 4 THEN 0
    ELSE LET n == Len(results)
             ranked_a == rank([k \in DOMAIN results |-> results[k][2]])
             ranked_p == rank([k \in DOMAIN results |-> results[k][1]])
             d4 == Sum([k \in DOMAIN results |->
                          (ranked_a[k] - ranked_p[k]) * (ranked_a[k] - ranked_p[k])])
         IN clamp(One - (One * 3 * d4) \div (4 * n * (n * n - 1)))

\* reward_signals.discrimination_reward: rho = 1 - 6 d_sq / (n (n^2 - 1)),
\* mapped to (rho + 1) / 2; d4 is 4 d_sq because the ranks are doubled
discrimination_reward(results) ==
    IF Len(results) < 3 THEN 0
    ELSE LET n == Len(results)
             ranked_a == rank([k \in DOMAIN results |-> results[k][2]])
             ranked_p == rank([k \in DOMAIN results |-> results[k][1]])
             d4 == Sum([k \in DOMAIN results |->
                          (ranked_a[k] - ranked_p[k]) * (ranked_a[k] - ranked_p[k])])
         IN clamp(One - (One * 3 * d4) \div (4 * n * (n * n - 1)))

\* the rubric codes drawn, by what validity_reward looks at: whether the code
\* is a single `return 0` or `return 1`, how many of the seven logic keywords
\* it holds, and whether it mentions the response
Codes == {[trivial |-> "no", logic |-> 7, response |-> TRUE],
          [trivial |-> "return 0", logic |-> 0, response |-> FALSE],
          [trivial |-> "return 1", logic |-> 1, response |-> TRUE]}

\* reward_signals.validity_reward
validity_reward(rubric_code, execution_success) ==
    IF ~execution_success THEN 0
    ELSE clamp(60 - (IF rubric_code.trivial = "no" THEN 0 ELSE 30)
                  + Min(rubric_code.logic * 5, 30)
                  + (IF rubric_code.response THEN 10 ELSE 0))

\* parent_mae of a child of the root: None
NoMae == -1

\* mutant of iteration_reward: a regression is not cut at 0
iteration_reward_uncut(current_mae, parent_mae) ==
    IF parent_mae = NoMae THEN clamp(One - current_mae)
    ELSE IF parent_mae = 0 THEN (IF current_mae = 0 THEN One ELSE 0)
    ELSE LET improvement == ((parent_mae - current_mae) * One) \div parent_mae
         IN IF improvement > 0
            THEN Min(One, 30 + (improvement * 7) \div 10)
            ELSE 30 + improvement

\* reward_signals.iteration_reward
iteration_reward(current_mae, parent_mae) ==
    IF parent_mae = NoMae THEN clamp(One - current_mae)
    ELSE IF parent_mae = 0 THEN (IF current_mae = 0 THEN One ELSE 0)
    ELSE LET improvement == ((parent_mae - current_mae) * One) \div parent_mae
         IN IF improvement > 0
            THEN Min(One, 30 + (improvement * 7) \div 10)
            ELSE Max(0, 30 + improvement)

\* reward_signals.compute_rewards; the weights 1.0, 0.4, 0.3, 0.2, 0.2 in tenths
compute_rewards(a) ==
    LET train_mae == IF a.train_results # <<>> THEN mae(a.train_results) ELSE One
        g == generalization_reward(a.train_results, a.eval_results)
        c == calibration_reward(a.train_results)
        d == discrimination_reward(a.train_results)
        v == validity_reward(a.rubric_code, a.execution_success)
        i == iteration_reward(train_mae, a.parent_mae)
    IN [done |-> TRUE, generalization |-> g, calibration |-> c,
        discrimination |-> d, validity |-> v, iteration |-> i,
        composite |-> (g * 10 + c * 4 + d * 3 + v * 2 + i * 2) \div 21]

\* the inputs of compute_rewards that are drawn
RewardInputs ==
    [fn : {"compute_rewards"},
     train_results : Lists(ResultPairs, MaxResults),
     eval_results : Lists(ResultPairs, 1),
     rubric_code : Codes,
     execution_success : BOOLEAN,
     parent_mae : {NoMae, 0, 50}]

\* the replies of the judge that are drawn: no number in the reply, or the
\* first number matched by (\d+\.?\d*), in tenths
NoNumber == -1
JudgeReplies == {NoNumber, 0, 3, 10, 25}

\* value_network._extract_score, in tenths
extract_score(reply) ==
    IF reply = NoNumber THEN RootValue ELSE Max(0, Min(10, reply))

NodeTypes == {"question", "strategy", "code", "result", "answer"}

\* value_network.evaluate_node for a node of a type and a reply of the judge
evaluate_node_reply(node_type, reply) ==
    [done |-> TRUE,
     score |-> IF node_type = "question" THEN RootValue ELSE extract_score(reply)]

JudgeInputs == [fn : {"evaluate_node"}, node_type : NodeTypes, reply : JudgeReplies]

\* the errors iteration_reward is called with, in hundredths
MaeGrid == {0, 15, 30, 36, 45, 60, 100}

IterationInputs ==
    [fn : {"iteration_reward"}, current_mae : MaeGrid,
     parent_mae : {NoMae, 0, 30, 50}]

\* A reply of the rubric policy, as re.split(r"---HYPOTHESIS---", raw) cuts
\* it: each part holds a fenced code block ("fenced"), or no fence but a line
\* that starts with `def rubric_fn` ("bare"), or no fence and `def rubric_fn`
\* only inside a line ("inline"), or none of these ("prose").
PartKinds == {"fenced", "bare", "inline", "prose"}

Replies == UNION {[1..k -> PartKinds] : k \in 1..MaxParts}

ParseInputs == [fn : {"parse_hypotheses"}, raw : Replies]

\* policy_network._parse_hypotheses: one hypothesis for each part that holds
\* code, in order; without any, the fallback rubric (no part holds a fence,
\* so the search for one big code block finds none)
parse_hypotheses_of(raw) ==
    LET hypotheses == SelectSeq(raw, LAMBDA part : part \in {"fenced", "bare"})
    IN IF hypotheses # <<>> THEN hypotheses ELSE <<"fallback">>

\* MCTSRubricTree._expand: one child is created and appended for each code
\* candidate the policy returned
expand_children(raw) ==
    [k \in DOMAIN parse_hypotheses_of(raw) |-> parse_hypotheses_of(raw)[k]]

\* ---------------------------------------- REPLEnvironment.execute_rubric
\* The fields of the examples a REPLEnvironment holds: the responses and the
\* scores of the train split, of its stratified sample and of the eval split.
TrainFields == {"train_response", "train_score"}
SampleFields == {"sample_response", "sample_score"}
EvalFields == {"eval_response", "eval_score"}

\* Rubric code, by what it does when execute_rubric runs it: whether it
\* defines a callable rubric_fn, whether its top level raises (after the
\* definition), whether it calls test_rubric(rubric_fn), whether it walks
\* from its own frame (a traceback's tb_frame) to the frame that called exec
\* and reads its locals, and whether it prints every value it is given.
RubricCodes ==
    [defines_rubric_fn : BOOLEAN, raises : BOOLEAN, calls_test_rubric : BOOLEAN,
     reads_caller_frame : BOOLEAN, prints : BOOLEAN]

RubricInputs == [fn : {"execute_rubric"}, code : RubricCodes]

\* the data the namespace of exec holds: training_examples and
\* sample_examples, each with response and score
namespace == TrainFields \cup SampleFields

\* _run_rubric(rubric_fn, examples): rubric_fn is called with the response of
\* every example; the score goes to the result only
run_rubric(response) == {response}

\* test_rubric, called by the code: rubric_fn is called with the response of
\* every sample example
test_rubric(code) ==
    IF code.calls_test_rubric /\ code.defines_rubric_fn
    THEN run_rubric("sample_response") ELSE {}

\* the locals of the frame that calls exec: self (with _train, _eval and
\* _sample), train_data and eval_data
caller_locals == TrainFields \cup SampleFields \cup EvalFields

\* execute_rubric(rubric_code): the result it returns, with the data its
\* stdout holds as a set of fields, and `observed`, the fields the rubric code
\* was given a value of (in its namespace, as an argument of rubric_fn, or by
\* reading the frame of its caller)
execute_rubric(code) ==
    LET success == ~code.raises
        found == code.defines_rubric_fn
        scored == success /\ found
        observed ==
            namespace
            \cup test_rubric(code)
            \cup (IF code.reads_caller_frame THEN caller_locals ELSE {})
            \cup (IF scored
                  THEN run_rubric("train_response")
                       \cup run_rubric("eval_response")
                  ELSE {})
    IN [done |-> TRUE,
        success |-> success,
        train_results |-> scored,
        eval_results |-> scored,
        stdout |-> IF code.prints THEN observed ELSE {},
        rubric_fn_found |-> found,
        observed |-> observed]

NoArgs == [fn |-> ""]
NoRet == [done |-> FALSE]

PureInit ==
    /\ args = NoArgs
    /\ ret = NoRet

\* ------------------------------------------------------------------- Init
NoSnapshot == [count |-> 0, node |-> None, root_visits |-> 0, node_visits |-> 0]
NoCalls == [policy |-> 0, evaluate |-> 0, backprop |-> 0, synthesize |-> 0,
            on_answer |-> 0]

\* no client is connected: the endpoint and the searches it starts are idle
NoRequest == [type |-> "", question |-> FALSE, video_ids |-> {}]

NoConnection ==
    /\ request = NoRequest
    /\ ws_pc = "off"
    /\ sent = <<>>
    /\ mcts_pc = "off"
    /\ mcts_iter = 0
    /\ plain_pc = "off"
    /\ llm_calls = 0
    /\ steps = <<>>
    /\ plain_log = <<>>
    /\ videos = {}
    /\ temp_dirs = 0

EngineInit ==
    /\ nodes = <<>>
    /\ branch_messages = <<>>
    /\ messages = <<>>
    /\ max_iterations \in 1..MaxIterations
    /\ max_depth \in 0..MaxDepth
    /\ pc = IF engine = "reasoning" THEN "start" ELSE "off"
    /\ iter = 0
    /\ leaf_id = None
    /\ pending = <<>>
    /\ registered = <<>>
    /\ value = 0
    /\ emitted = NoSnapshot
    /\ result = [answer |-> "", confidence |-> 0, passed |-> {}]
    /\ calls = NoCalls
    /\ expansions = <<>>
    /\ worker = "idle"
    /\ rnodes = <<RubricNode("root", None, 0)>>
    /\ rpc = IF engine = "rubric" THEN "select" ELSE "off"
    /\ riter = 0
    /\ rleaf = None
    /\ rpending = 0
    /\ rchildren = <<>>
    /\ rdone = 0
    /\ best_node = None

Init ==
    /\ engine \in {"reasoning", "rubric"}
    /\ EngineInit
    /\ SandboxInit
    /\ PureInit
    /\ NoConnection

RootId == 1

\* (node, tree_snapshot()) as on_node receives them: the focal node and the
\* visit counts the snapshot shows for the root and for the focal node
Snapshot(tree, nid) ==
    [count |-> emitted.count + 1, node |-> nid,
     root_visits |-> tree[RootId].visits, node_visits |-> tree[nid].visits]

\* search(): create the root and hand it to on_node
Start ==
    /\ engine = "reasoning"
    /\ pc = "start"
    /\ LET root == ReasoningNode("question", None, 0, "")
           tree == Put(nodes, make_id(nodes), root)
       IN /\ nodes' = tree
          /\ emitted' = Snapshot(tree, RootId)
          /\ branch_messages' = Put(branch_messages, make_id(nodes), <<>>)
    /\ expansions' = <<0>>
    /\ pc' = IF max_iterations > 0 THEN "select" ELSE "synthesize"
    /\ UNCHANGED <<params, messages, serving, pure, sandbox, rubric, iter, leaf_id, pending, registered, value,
                   result, calls, worker>>

\* mutant of ShouldExpand: the depth of the leaf is not tested
ShouldExpandAnyDepth(tree, leaf, maxDepth) == tree[leaf].children = <<>>

\* search(): the test that guards 2. EXPAND
ShouldExpand(tree, leaf, maxDepth) ==
    tree[leaf].depth < maxDepth /\ tree[leaf].children = <<>>

\* search(): 1. SELECT, and the test that guards 2. EXPAND
Select ==
    /\ engine = "reasoning"
    /\ pc = "select"
    /\ LET leaf == select(nodes, RootId)
       IN /\ leaf_id' = leaf
          /\ pc' = IF ShouldExpand(nodes, leaf, max_depth)
                   THEN "expand" ELSE "evaluate"
    /\ UNCHANGED <<params, history, serving, pure, sandbox, rubric, nodes, iter, pending, registered, value,
                   emitted, result, calls, expansions, worker>>

\* mutant of AfterExpand: the last child created becomes the leaf
AfterExpandLast(reg) ==
    /\ pc' = "evaluate"
    /\ leaf_id' = IF reg # <<>> THEN reg[Len(reg)] ELSE leaf_id

\* search(): children[0] becomes the leaf when _expand returned any child
AfterExpand(reg) ==
    /\ pc' = "evaluate"
    /\ leaf_id' = IF reg # <<>> THEN reg[1] ELSE leaf_id

\* _expand(): the policy_fn call
ExpandPolicy ==
    /\ engine = "reasoning"
    /\ pc = "expand"
    /\ \E children \in expand_node(nodes[leaf_id].node_type) :
          /\ pending' = children
          /\ registered' = <<>>
          /\ IF children = <<>>
             THEN AfterExpand(<<>>)
             ELSE pc' = "child" /\ UNCHANGED leaf_id
    /\ messages' = get_branch_messages(nodes, branch_messages, leaf_id)
    /\ calls' = [calls EXCEPT !.policy = @ + 1]
    /\ expansions' = [expansions EXCEPT ![leaf_id] = @ + 1]
    /\ UNCHANGED <<params, branch_messages, serving, pure, sandbox, rubric, nodes, iter, value, emitted, result, worker>>

\* mutant of AppendChild: the id is appended a second time
AppendChildTwice(tree, parent, cid) ==
    [tree EXCEPT ![parent].children = Append(Append(@, cid), cid)]

\* _expand(): node.children.append(child.id)
AppendChild(tree, parent, cid) ==
    [tree EXCEPT ![parent].children = Append(@, cid)]

\* _expand(): register one child (and its answer child) and go on
Register(child, final) ==
    LET cid == make_id(nodes)
        aid == cid + 1
        ans == ReasoningNode("answer", cid, child.depth + 1, "")
        withAns == IF final
                   THEN Put(nodes, aid, [ans EXCEPT !.content = "final"])
                   ELSE nodes
        c == IF final THEN [child EXCEPT !.children = <<aid>>] ELSE child
        tree == AppendChild(Put(withAns, cid, c), leaf_id, cid)
        reg == Append(registered, cid)
    IN /\ nodes' = tree
       /\ branch_messages' = Put(branch_messages, cid, child_msgs(messages, child, cid))
       /\ expansions' = [i \in DOMAIN tree |->
                            IF i \in DOMAIN expansions THEN expansions[i] ELSE 0]
       /\ pending' = Tail(pending)
       /\ registered' = reg
       /\ IF Len(pending) = 1
          THEN AfterExpand(reg)
          ELSE pc' = "child" /\ UNCHANGED leaf_id

\* content summary _expand derives from the execution result
Summary(r) ==
    IF r.success /\ r.stdout # "" THEN "executed"
    ELSE IF ~r.success THEN "error" ELSE "no output"

\* _expand(): the code child as it stands after its execution
Executed(seed, r, timedOut) ==
    [ReasoningNode("code", leaf_id, nodes[leaf_id].depth + 1, seed.code)
        EXCEPT !.repl_stdout = r.stdout, !.repl_stderr = r.stderr,
               !.content = Summary(r), !.timed_out = timedOut]

IsCodeSeed(seed) == seed.node_type = "code" /\ seed.code # ""

\* _expand(): execute_async hands the code of a code child to an executor thread
ExecuteAsync ==
    /\ engine = "reasoning"
    /\ pc = "child"
    /\ IsCodeSeed(Head(pending))
    /\ worker' = "running"
    /\ pc' = "executing"
    /\ UNCHANGED <<params, history, serving, pure, sandbox, rubric, nodes, iter, leaf_id, pending, registered,
                   value, emitted, result, calls, expansions>>

\* the executor thread returns from REPLEnv.execute; code that does not
\* terminate never takes this step
WorkerFinish ==
    /\ engine = "reasoning"
    /\ pc = "executing"
    /\ worker = "running"
    /\ worker' = "finished"
    /\ UNCHANGED <<params, history, serving, pure, sandbox, rubric, nodes, pc, iter, leaf_id, pending, registered,
                   value, emitted, result, calls, expansions>>

\* whether _check_final_var can resolve a variable after an execution that
\* was abandoned at the timeout (the code seeds drawn carry no marker then)
FinalAfterTimeout == {FALSE}

\* _expand(): a code child whose execution finished within the timeout
ExpandChildCompleted ==
    /\ engine = "reasoning"
    /\ pc = "executing"
    /\ worker = "finished"
    /\ \E r \in CompletedResults, final \in BOOLEAN :
          Register(Executed(Head(pending), r, FALSE), final)
    /\ worker' = "idle"
    /\ UNCHANGED <<params, messages, serving, pure, sandbox, rubric, iter, value, emitted, result, calls>>

\* _expand(): a code child whose execution was still running at the timeout
ExpandChildTimedOut ==
    /\ engine = "reasoning"
    /\ pc = "executing"
    /\ worker = "running"
    /\ \E final \in FinalAfterTimeout :
          Register(Executed(Head(pending), TimeoutResult, TRUE), final)
    /\ worker' = "idle"
    /\ UNCHANGED <<params, messages, serving, pure, sandbox, rubric, iter, value, emitted, result, calls>>

\* _expand(): a child without code is registered as it is
ExpandChildPlain ==
    /\ engine = "reasoning"
    /\ pc = "child"
    /\ ~IsCodeSeed(Head(pending))
    /\ Register([ReasoningNode(Head(pending).node_type, leaf_id,
                               nodes[leaf_id].depth + 1, Head(pending).code)
                    EXCEPT !.content = "text"], FALSE)
    /\ UNCHANGED <<params, messages, serving, pure, sandbox, rubric, iter, value, emitted, result, calls, worker>>

\* value_network.evaluate_node: the scalars it can return for a node
evaluate_node(n) == IF n.node_type = "question" THEN {RootValue} ELSE Values

\* mutant of Evaluate: the loop goes from evaluation straight to the emit
EvaluateSkipsBackprop ==
    /\ engine = "reasoning"
    /\ pc = "evaluate"
    /\ value' \in evaluate_node(nodes[leaf_id])
    /\ calls' = [calls EXCEPT !.evaluate = @ + 1]
    /\ pc' = "emit"
    /\ UNCHANGED <<params, history, serving, pure, sandbox, rubric, nodes, iter, leaf_id, pending, registered,
                   emitted, result, expansions, worker>>

\* search(): 3. EVALUATE
Evaluate ==
    /\ engine = "reasoning"
    /\ pc = "evaluate"
    /\ value' \in evaluate_node(nodes[leaf_id])
    /\ calls' = [calls EXCEPT !.evaluate = @ + 1]
    /\ pc' = "backpropagate"
    /\ UNCHANGED <<params, history, serving, pure, sandbox, rubric, nodes, iter, leaf_id, pending, registered,
                   emitted, result, expansions, worker>>

\* search(): 4. BACKPROPAGATE
Backpropagate ==
    /\ engine = "reasoning"
    /\ pc = "backpropagate"
    /\ nodes' = backpropagate(nodes, leaf_id, value)
    /\ calls' = [calls EXCEPT !.backprop = @ + 1]
    /\ pc' = "emit"
    /\ UNCHANGED <<params, history, serving, pure, sandbox, rubric, iter, leaf_id, pending, registered, value,
                   emitted, result, expansions, worker>>

\* mutant of LoopGoesOn: the loop runs once more
LoopGoesOnOnceMore(done, maxIterations) == done <= maxIterations

\* mutant of LoopGoesOn: the loop stops one iteration short
LoopStopsOneShort(done, maxIterations) == done + 1 < maxIterations

\* search(): for _ in range(self.max_iterations), the test after an iteration
LoopGoesOn(done, maxIterations) == done < maxIterations

\* search(): 5. STREAM, and the loop test
Emit ==
    /\ engine = "reasoning"
    /\ pc = "emit"
    /\ emitted' = Snapshot(nodes, leaf_id)
    /\ iter' = iter + 1
    /\ pc' = IF LoopGoesOn(iter + 1, max_iterations) THEN "select" ELSE "synthesize"
    /\ UNCHANGED <<params, history, serving, pure, sandbox, rubric, nodes, leaf_id, pending, registered, value,
                   result, calls, expansions, worker>>

\* round(avg_value, 3), in thousandths
Score(n) == IF n.visits > 0 THEN ((n.total_value * 200) \div n.visits + 1) \div 2 ELSE 0

\* mutant of Candidates: unvisited nodes are collected too
CandidatesUnvisited(tree) ==
    {i \in DOMAIN tree :
        \/ tree[i].node_type = "answer"
        \/ tree[i].node_type = "code" /\ tree[i].repl_stdout # ""}

\* nodes _synthesize_answer collects; repl_stdout "" stands for an output
\* whose strip() is empty
Candidates(tree) ==
    {i \in DOMAIN tree :
        \/ tree[i].node_type = "answer" /\ tree[i].visits > 0
        \/ tree[i].node_type = "code" /\ tree[i].visits > 0
             /\ tree[i].repl_stdout # ""}

SetMax(S) == CHOOSE x \in S : \A y \in S : y <= x

\* results[:10]
SynthCap == 10

\* the order of self.nodes.values(): the order of registration, in which an
\* answer node comes before the code node it hangs under
InsertedBefore(tree, j, i) ==
    IF tree[j].parent_id = i /\ tree[j].node_type = "answer" THEN TRUE
    ELSE IF tree[i].parent_id = j /\ tree[i].node_type = "answer" THEN FALSE
    ELSE j < i

\* results.sort(key=score, reverse=True); results[:10]: the candidates with
\* fewer than 10 candidates before them in the stable descending order
Top(tree, cands) ==
    {i \in cands :
        Cardinality({j \in cands :
            \/ Score(tree[j]) > Score(tree[i])
            \/ Score(tree[j]) = Score(tree[i]) /\ j # i
                 /\ InsertedBefore(tree, j, i)}) < SynthCap}

\* _synthesize_answer
Synthesize ==
    /\ engine = "reasoning"
    /\ pc = "synthesize"
    /\ LET cands == Candidates(nodes)
       IN IF cands = {}
          THEN /\ result' = [answer |-> "Could not determine an answer.",
                             confidence |-> 0, passed |-> {}]
               /\ UNCHANGED calls
          ELSE /\ result' = [answer |-> "synthesized",
                             confidence |->
                                 Min(SetMax({Score(nodes[i]) : i \in cands}), 1000),
                             passed |-> Top(nodes, cands)]
               /\ calls' = [calls EXCEPT !.synthesize = @ + 1]
    /\ pc' = "answer"
    /\ UNCHANGED <<params, history, serving, pure, sandbox, rubric, nodes, iter, leaf_id, pending, registered,
                   value, emitted, expansions, worker>>

\* search(): on_answer, then return
OnAnswer ==
    /\ engine = "reasoning"
    /\ pc = "answer"
    /\ calls' = [calls EXCEPT !.on_answer = @ + 1]
    /\ pc' = "done"
    /\ UNCHANGED <<params, history, serving, pure, sandbox, rubric, nodes, iter, leaf_id, pending, registered,
                   value, emitted, result, expansions, worker>>

\* ======================================================== rubric actions
\* run(): SELECT, and the policy call of _expand()
RubricSelect ==
    /\ engine = "rubric"
    /\ rpc = "select"
    /\ rleaf' = rubric_select(rnodes, RootId, max_depth)
    /\ rpending' \in parse_hypotheses
    /\ rchildren' = <<>>
    /\ rpc' = "create"
    /\ UNCHANGED <<params, history, serving, pure, sandbox, reasoning, rnodes, riter, rdone, best_node>>

\* _create_and_evaluate(): one candidate becomes a child of the expanded node.
\* execute_rubric is called on the event loop itself, without executor and
\* without timeout: when exec(rubric_code) does not return, run() stays in
\* this call ("executing") and nothing else is scheduled
CreateAndEvaluate ==
    /\ engine = "rubric"
    /\ rpc = "create"
    /\ \E terminates \in BOOLEAN :
          IF terminates
          THEN /\ \E reward \in Rewards :
                     LET parent == rnodes[rleaf]
                         type == IF parent.node_type = "root" THEN "hypothesis"
                                 ELSE "refinement"
                         cid == make_id(rnodes)
                         child == [RubricNode(type, rleaf, parent.depth + 1)
                                      EXCEPT !.reward_composite = reward]
                     IN /\ rnodes' = [Put(rnodes, cid, child)
                                         EXCEPT ![rleaf].children_ids = Append(@, cid)]
                        /\ rchildren' = Append(rchildren, cid)
               /\ rpending' = rpending - 1
               /\ rdone' = 0
               /\ rpc' = IF rpending = 1 THEN "backpropagate" ELSE "create"
          ELSE /\ rpc' = "executing"
               /\ UNCHANGED <<rnodes, rchildren, rpending, rdone>>
    /\ UNCHANGED <<params, history, serving, pure, sandbox, reasoning, riter, rleaf, best_node>>

\* run(): the test that ends the loop over children and the loop over iterations
RubricAdvance(done) ==
    IF done < Len(rchildren)
    THEN rpc' = "backpropagate" /\ riter' = riter
    ELSE /\ riter' = riter + 1
         /\ rpc' = IF riter + 1 < max_iterations THEN "select" ELSE "finish"

\* run(): back-propagate one child, track the best node, notify
RubricBackpropagate ==
    /\ engine = "rubric"
    /\ rpc = "backpropagate"
    /\ LET cid == rchildren[rdone + 1]
           child == rnodes[cid]
       IN /\ rnodes' = rubric_backpropagate(rnodes, cid, child.reward_composite)
          /\ best_node' =
                IF best_node = None
                   \/ child.reward_composite > rnodes[best_node].reward_composite
                THEN cid ELSE best_node
    /\ rdone' = rdone + 1
    /\ RubricAdvance(rdone + 1)
    /\ UNCHANGED <<params, history, serving, pure, sandbox, reasoning, rleaf, rpending, rchildren>>

\* run(): return self.best_node or self.root
run_result(best) == IF best # None THEN best ELSE RootId

\* mutant of RubricFinish: run() returns without marking the best node
RubricFinishUnmarked ==
    /\ engine = "rubric"
    /\ rpc = "finish"
    /\ rpc' = "done"
    /\ UNCHANGED <<params, history, serving, pure, sandbox, reasoning, rnodes, riter, rleaf, rpending,
                   rchildren, rdone, best_node>>

\* run(): mark the best node final and return
RubricFinish ==
    /\ engine = "rubric"
    /\ rpc = "finish"
    /\ rnodes' = IF best_node # None
                 THEN [rnodes EXCEPT ![best_node].node_type = "final"]
                 ELSE rnodes
    /\ rpc' = "done"
    /\ UNCHANGED <<params, history, serving, pure, sandbox, reasoning, riter, rleaf, rpending, rchildren, rdone,
                   best_node>>

\* ============================================ REPLEnv.execute / execute_async
\* execute_async: loop.run_in_executor(None, self.execute, code) under wait_for
Call ==
    /\ engine = "sandbox"
    /\ awaited = 0
    /\ Len(threads) < MaxExecutes
    /\ \E code \in Programs :
          /\ threads' = Append(threads, NewThread(code))
          /\ awaited' = Len(threads) + 1
    /\ UNCHANGED <<params, history, serving, pure, reasoning, rubric, repl_locals, repl_globals,
                   llm_call_count, sys_stdout, sys_stderr, returned, answer_children>>

\* execute(): reset the call count, swap sys.stdout, run the import lines in
\* _globals and build the namespace of the other lines
Begin ==
    /\ engine = "sandbox"
    /\ \E w \in DOMAIN threads :
          /\ threads[w].status = "submitted"
          /\ LET code == threads[w].code
                 globals == repl_globals
                              \cup {import_lines(code)[i].name :
                                        i \in DOMAIN import_lines(code)}
             IN /\ llm_call_count' = 0
                /\ sys_stdout' = w
                /\ sys_stderr' = w
                /\ repl_globals' = globals
                /\ threads' = [threads EXCEPT
                       ![w].status = "running",
                       ![w].old_stdout = sys_stdout,
                       ![w].old_stderr = sys_stderr,
                       ![w].code = other_lines(code),
                       ![w].imports = {import_lines(code)[i].name :
                                           i \in DOMAIN import_lines(code)},
                       ![w].pos = 1,
                       ![w].persist = other_lines(code) # <<>>,
                       ![w].combined = Combined(globals, repl_locals)]
    /\ UNCHANGED <<params, history, serving, pure, reasoning, rubric, repl_locals, awaited, returned, answer_children>>

\* the statement the thread w is about to execute
Running(w, op) ==
    /\ threads[w].status = "running"
    /\ threads[w].pos <= Len(threads[w].code)
    /\ threads[w].code[threads[w].pos].op = op

\* name = value
StepAssign ==
    /\ engine = "sandbox"
    /\ \E w \in DOMAIN threads :
          /\ Running(w, "assign")
          /\ LET s == threads[w].code[threads[w].pos]
             IN threads' = [threads EXCEPT
                    ![w].combined[s.name] = s.val,
                    ![w].wrote = @ \cup {s.name},
                    ![w].pos = @ + 1]
    /\ UNCHANGED <<params, history, serving, pure, reasoning, rubric, repl_locals, repl_globals,
                   llm_call_count, sys_stdout, sys_stderr, awaited, returned, answer_children>>

\* what print() does with value v: it writes to whatever sys.stdout is now
PrintTo(ts, v) ==
    IF sys_stdout = 0 THEN ts
    ELSE [ts EXCEPT ![sys_stdout].stdout_buf = Append(@, v)]

\* print(name + val); a name without binding raises NameError, a string
\* plus a number TypeError
StepPrint ==
    /\ engine = "sandbox"
    /\ \E w \in DOMAIN threads :
          /\ Running(w, "print")
          /\ LET s == threads[w].code[threads[w].pos]
                 v == threads[w].combined[s.name]
             IN threads' =
                  IF v = Unbound \/ (IsStr(v) /\ s.val # 0)
                  THEN [threads EXCEPT ![w].success = FALSE,
                                       ![w].pos = Len(threads[w].code) + 1]
                  ELSE PrintTo([threads EXCEPT ![w].pos = @ + 1], v + s.val)
    /\ UNCHANGED <<params, history, serving, pure, reasoning, rubric, repl_locals, repl_globals,
                   llm_call_count, sys_stdout, sys_stderr, awaited, returned, answer_children>>

\* llm_query(prompt): count the call; past max_llm_calls return the sentinel
\* without calling the model
StepLlm ==
    /\ engine = "sandbox"
    /\ \E w \in DOMAIN threads :
          /\ Running(w, "llm")
          /\ llm_call_count' = llm_call_count + 1
          /\ threads' = [threads EXCEPT
                 ![w].asked = @ + 1,
                 ![w].reached = IF llm_call_count + 1 > max_llm_calls
                                THEN @ ELSE @ + 1,
                 ![w].pos = @ + 1]
    /\ UNCHANGED <<params, history, serving, pure, reasoning, rubric, repl_locals, repl_globals,
                   sys_stdout, sys_stderr, awaited, returned, answer_children>>

\* a statement that raises: the except branch of execute()
StepRaise ==
    /\ engine = "sandbox"
    /\ \E w \in DOMAIN threads :
          /\ Running(w, "raise")
          /\ threads' = [threads EXCEPT ![w].success = FALSE,
                                        ![w].pos = Len(threads[w].code) + 1]
    /\ UNCHANGED <<params, history, serving, pure, reasoning, rubric, repl_locals, repl_globals,
                   llm_call_count, sys_stdout, sys_stderr, awaited, returned, answer_children>>

\* raise SystemExit (sys.exit(), exit()): a BaseException, which the
\* `except Exception` of execute() lets through; only `finally` runs
StepExit ==
    /\ engine = "sandbox"
    /\ \E w \in DOMAIN threads :
          /\ Running(w, "exit")
          /\ threads' = [threads EXCEPT ![w].exited = TRUE,
                                        ![w].pos = Len(threads[w].code) + 1]
    /\ UNCHANGED <<params, history, serving, pure, reasoning, rubric, repl_locals, repl_globals,
                   llm_call_count, sys_stdout, sys_stderr, awaited, returned, answer_children>>

\* FINAL_VAR("name") called by the code: final_var returns a string and
\* changes nothing
StepFinal ==
    /\ engine = "sandbox"
    /\ \E w \in DOMAIN threads :
          /\ Running(w, "final")
          /\ threads' = [threads EXCEPT ![w].pos = @ + 1]
    /\ UNCHANGED <<params, history, serving, pure, reasoning, rubric, repl_locals, repl_globals,
                   llm_call_count, sys_stdout, sys_stderr, awaited, returned, answer_children>>

\* execute(): after the last statement persist the namespace (only when no
\* exception was raised), restore sys.stdout and return the result; the
\* caller (_expand) receives it unless it has stopped waiting, and checks
\* the final-answer marker.  After SystemExit nothing is returned: the
\* exception reaches the caller, which creates no node
Finish ==
    /\ engine = "sandbox"
    /\ \E w \in DOMAIN threads :
          /\ threads[w].status = "running"
          /\ threads[w].pos > Len(threads[w].code)
          /\ repl_locals' =
                IF threads[w].success /\ threads[w].persist /\ ~threads[w].exited
                THEN Persist(repl_globals, repl_locals, threads[w].combined)
                ELSE repl_locals
          /\ sys_stdout' = threads[w].old_stdout
          /\ sys_stderr' = threads[w].old_stderr
          /\ threads' = [threads EXCEPT
                 ![w].status = "done",
                 ![w].end_value =
                     IF marker(threads[w].code) = "" THEN Unbound
                     ELSE get_variable(repl_globals, repl_locals',
                                       marker(threads[w].code))]
          /\ IF awaited = w
             THEN /\ returned' = Append(returned,
                                     IF threads[w].exited THEN Raised
                                     ELSE REPLResult(threads[w], repl_locals'))
                  /\ answer_children' =
                        Append(answer_children,
                               IF threads[w].exited THEN NoAnswer
                               ELSE answer_child(check_final_var(threads[w].code,
                                                     repl_globals, repl_locals')))
                  /\ awaited' = 0
             ELSE UNCHANGED <<awaited, returned, answer_children>>
    /\ UNCHANGED <<params, history, serving, pure, reasoning, rubric, repl_globals, llm_call_count>>

\* execute_async(): wait_for gives up; the thread is left running; _expand
\* goes on to its check of the final-answer marker
Timeout ==
    /\ engine = "sandbox"
    /\ awaited # 0
    /\ threads[awaited].status # "done"
    /\ returned' = Append(returned, TimedOutResult)
    /\ answer_children' =
          Append(answer_children,
                 answer_child(check_final_var(other_lines(threads[awaited].code),
                                  repl_globals, repl_locals)))
    /\ awaited' = 0
    /\ UNCHANGED <<params, history, serving, pure, reasoning, rubric, repl_locals, repl_globals,
                   llm_call_count, sys_stdout, sys_stderr, threads>>

ReplInit ==
    /\ engine = "sandbox"
    /\ max_iterations = 1
    /\ max_depth = 0
    /\ EngineInit
    /\ SandboxInit
    /\ PureInit
    /\ NoConnection

ReplNext ==
    \/ Call
    \/ Begin
    \/ StepAssign
    \/ StepPrint
    \/ StepLlm
    \/ StepRaise
    \/ StepExit
    \/ StepFinal
    \/ Finish
    \/ Timeout

SpecRepl == ReplInit /\ [][ReplNext]_vars

\* ================================ comparison mode: two sandboxes at a time
\* The endpoint builds plain_repl and mcts_repl and gathers the two searches;
\* each search hands its execute() calls to the default executor, so a call
\* of plain_repl.execute and one of mcts_repl.execute can run at the same time
\* on two worker threads.  Here threads[w] is the w-th such call, of either
\* sandbox, and every call runs code that prints one line.
Repls == {"plain_repl", "mcts_repl"}

\* a call of r.execute() handed to the executor by execute_async
NewExecution(r) ==
    [repl |-> r, status |-> "submitted", old_stdout |-> 0, old_stderr |-> 0,
     stdout_buf |-> <<>>, stdout |-> <<>>]

\* the searches await each call of execute_async before the next one
InFlight(r) ==
    \E w \in DOMAIN threads : threads[w].repl = r /\ threads[w].status # "done"

Executions(r) == {w \in DOMAIN threads : threads[w].repl = r}

\* execute_async of one of the two sandboxes:
\* loop.run_in_executor(None, self.execute, code)
SubmitExecute ==
    /\ engine = "sandboxes"
    /\ \E r \in Repls :
          /\ ~InFlight(r)
          /\ Cardinality(Executions(r)) < MaxExecutes
          /\ threads' = Append(threads, NewExecution(r))
    /\ UNCHANGED <<params, history, serving, pure, reasoning, rubric, repl_locals, repl_globals,
                   llm_call_count, sys_stdout, sys_stderr, awaited, returned,
                   answer_children>>

\* old_stdout, old_stderr = sys.stdout, sys.stderr
SaveStreams ==
    /\ engine = "sandboxes"
    /\ \E w \in DOMAIN threads :
          /\ threads[w].status = "submitted"
          /\ threads' = [threads EXCEPT ![w].status = "saved",
                                        ![w].old_stdout = sys_stdout,
                                        ![w].old_stderr = sys_stderr]
    /\ UNCHANGED <<params, history, serving, pure, reasoning, rubric, repl_locals, repl_globals,
                   llm_call_count, sys_stdout, sys_stderr, awaited, returned,
                   answer_children>>

\* sys.stdout = stdout_buf
SetStdout ==
    /\ engine = "sandboxes"
    /\ \E w \in DOMAIN threads :
          /\ threads[w].status = "saved"
          /\ sys_stdout' = w
          /\ threads' = [threads EXCEPT ![w].status = "stdout_set"]
    /\ UNCHANGED <<params, history, serving, pure, reasoning, rubric, repl_locals, repl_globals,
                   llm_call_count, sys_stderr, awaited, returned, answer_children>>

\* sys.stderr = stderr_buf
SetStderr ==
    /\ engine = "sandboxes"
    /\ \E w \in DOMAIN threads :
          /\ threads[w].status = "stdout_set"
          /\ sys_stderr' = w
          /\ threads' = [threads EXCEPT ![w].status = "running"]
    /\ UNCHANGED <<params, history, serving, pure, reasoning, rubric, repl_locals, repl_globals,
                   llm_call_count, sys_stdout, awaited, returned, answer_children>>

\* exec of the code: its print writes a line (here w, the call that printed
\* it) to whatever sys.stdout is now
ExecPrint ==
    /\ engine = "sandboxes"
    /\ \E w \in DOMAIN threads :
          /\ threads[w].status = "running"
          /\ threads' = PrintTo([threads EXCEPT ![w].status = "finally"], w)
    /\ UNCHANGED <<params, history, serving, pure, reasoning, rubric, repl_locals, repl_globals,
                   llm_call_count, sys_stdout, sys_stderr, awaited, returned,
                   answer_children>>

\* finally: sys.stdout = old_stdout
RestoreStdout ==
    /\ engine = "sandboxes"
    /\ \E w \in DOMAIN threads :
          /\ threads[w].status = "finally"
          /\ sys_stdout' = threads[w].old_stdout
          /\ threads' = [threads EXCEPT ![w].status = "stdout_restored"]
    /\ UNCHANGED <<params, history, serving, pure, reasoning, rubric, repl_locals, repl_globals,
                   llm_call_count, sys_stderr, awaited, returned, answer_children>>

\* finally: sys.stderr = old_stderr
RestoreStderr ==
    /\ engine = "sandboxes"
    /\ \E w \in DOMAIN threads :
          /\ threads[w].status = "stdout_restored"
          /\ sys_stderr' = threads[w].old_stderr
          /\ threads' = [threads EXCEPT ![w].status = "restored"]
    /\ UNCHANGED <<params, history, serving, pure, reasoning, rubric, repl_locals, repl_globals,
                   llm_call_count, sys_stdout, awaited, returned, answer_children>>

\* return REPLResult(stdout=stdout_buf.getvalue(), ...)
ReturnResult ==
    /\ engine = "sandboxes"
    /\ \E w \in DOMAIN threads :
          /\ threads[w].status = "restored"
          /\ threads' = [threads EXCEPT ![w].status = "done",
                                        ![w].stdout = threads[w].stdout_buf]
    /\ UNCHANGED <<params, history, serving, pure, reasoning, rubric, repl_locals, repl_globals,
                   llm_call_count, sys_stdout, sys_stderr, awaited, returned,
                   answer_children>>

SandboxesInit ==
    /\ engine = "sandboxes"
    /\ max_iterations = 1
    /\ max_depth = 0
    /\ EngineInit
    /\ SandboxInit
    /\ PureInit
    /\ NoConnection

SandboxesNext ==
    \/ SubmitExecute
    \/ SaveStreams
    \/ SetStdout
    \/ SetStderr
    \/ ExecPrint
    \/ RestoreStdout
    \/ RestoreStderr
    \/ ReturnResult

SpecSandboxes == SandboxesInit /\ [][SandboxesNext]_vars

\* ===================================================== calls of the evaluators
\* reward_signals.compute_rewards applied to the drawn input
ComputeRewards ==
    /\ engine = "evaluators"
    /\ args.fn = "compute_rewards"
    /\ ~ret.done
    /\ ret' = compute_rewards(args)
    /\ UNCHANGED <<params, history, serving, reasoning, rubric, sandbox, args>>

\* value_network.evaluate_node applied to the drawn node type and reply
EvaluateNode ==
    /\ engine = "evaluators"
    /\ args.fn = "evaluate_node"
    /\ ~ret.done
    /\ ret' = evaluate_node_reply(args.node_type, args.reply)
    /\ UNCHANGED <<params, history, serving, reasoning, rubric, sandbox, args>>

\* reward_signals.iteration_reward applied to the drawn errors
IterationReward ==
    /\ engine = "evaluators"
    /\ args.fn = "iteration_reward"
    /\ ~ret.done
    /\ ret' = [done |-> TRUE,
               value |-> iteration_reward(args.current_mae, args.parent_mae)]
    /\ UNCHANGED <<params, history, serving, reasoning, rubric, sandbox, args>>

\* MCTSRubricTree._expand applied to the drawn reply of the policy
ExpandReply ==
    /\ engine = "evaluators"
    /\ args.fn = "parse_hypotheses"
    /\ ~ret.done
    /\ ret' = [done |-> TRUE, children |-> expand_children(args.raw)]
    /\ UNCHANGED <<params, history, serving, reasoning, rubric, sandbox, args>>

\* REPLEnvironment.execute_rubric applied to the drawn rubric code
ExecuteRubric ==
    /\ engine = "evaluators"
    /\ args.fn = "execute_rubric"
    /\ ~ret.done
    /\ ret' = execute_rubric(args.code)
    /\ UNCHANGED <<params, history, serving, reasoning, rubric, sandbox, args>>

EvalInit ==
    /\ engine = "evaluators"
    /\ max_iterations = 1
    /\ max_depth = 0
    /\ EngineInit
    /\ SandboxInit
    /\ args \in RewardInputs \cup JudgeInputs \cup IterationInputs
                 \cup ParseInputs \cup RubricInputs
    /\ ret = NoRet
    /\ NoConnection

EvalNext ==
    \/ ComputeRewards
    \/ EvaluateNode
    \/ IterationReward
    \/ ExpandReply
    \/ ExecuteRubric

SpecEval == EvalInit /\ [][EvalNext]_vars

\* ================================================= websocket_endpoint
\* ids of videos a request can name: "a" can be in the store, "b" never is
VideoIds == {"a", "b"}

\* what POST /transcribe can have left in the store
Stores == {{}, {"a"}}

\* A request: type "rest_ask" is POST /ask, the others are messages on the
\* websocket; question is "question is not empty".
Requests ==
    [type : {"ask", "compare", "ping", "other", "rest_ask"}, question : BOOLEAN,
     video_ids : SUBSET VideoIds]

\* _build_full_text: the stored videos whose header and text are joined;
\* every matched video contributes its "=== title ===" header, so
\* full_text.strip() is empty exactly when no video matched
build_full_text(video_ids, store) ==
    LET ids == IF video_ids # {} THEN video_ids ELSE store
    IN {vid \in ids : vid \in store}

\* messages of the error events of the validation
NoQuestionProvided == 1
NoTranscriptsLoaded == 2

\* the dict ws.send_json sends: its "event", and the number it carries
\* (step_number of a plain_step, visits of the root in the tree_snapshot of
\* a node_update, the message of a validation error)
Event(name, n) == [event |-> name, n |-> n]

\* the callbacks and replies of the endpoint
send_json(log, name, n) == Append(log, Event(name, n))

\* REPLEnv.__init__: tempfile.mkdtemp, once per sandbox
mkdtemp(dirs, sandboxes) == dirs + sandboxes

\* ws.receive_json() and the branch on msg_type up to the first await of a
\* search (or ask_question up to its await): validation, search_started,
\* the sandboxes and the start of the searches
Dispatch ==
    /\ engine = "server"
    /\ ws_pc = "dispatch"
    /\ LET full_text == build_full_text(request.video_ids, videos)
       IN IF request.type \in {"ask", "compare"}
          THEN IF ~request.question
               THEN /\ sent' = send_json(sent, "error", NoQuestionProvided)
                    /\ ws_pc' = "receive"
                    /\ UNCHANGED <<mcts_pc, plain_pc, temp_dirs>>
               ELSE IF full_text = {}
               THEN /\ sent' = send_json(sent, "error", NoTranscriptsLoaded)
                    /\ ws_pc' = "receive"
                    /\ UNCHANGED <<mcts_pc, plain_pc, temp_dirs>>
               ELSE /\ sent' = send_json(sent, "search_started", 0)
                    /\ temp_dirs' = mkdtemp(temp_dirs,
                                        IF request.type = "compare" THEN 2 ELSE 1)
                    /\ mcts_pc' = "root"
                    /\ plain_pc' = IF request.type = "compare" THEN "policy" ELSE "off"
                    /\ ws_pc' = IF request.type = "ask" THEN "search" ELSE "gather"
          ELSE IF request.type = "rest_ask"
          THEN IF full_text = {}
               THEN /\ sent' = send_json(sent, "http", 400)
                    /\ ws_pc' = "receive"
                    /\ UNCHANGED <<mcts_pc, plain_pc, temp_dirs>>
               ELSE /\ temp_dirs' = mkdtemp(temp_dirs, 1)
                    /\ mcts_pc' = "root"
                    /\ ws_pc' = "search"
                    /\ UNCHANGED <<sent, plain_pc>>
          ELSE /\ sent' = IF request.type = "ping"
                          THEN send_json(sent, "pong", 0) ELSE sent
               /\ ws_pc' = "receive"
               /\ UNCHANGED <<mcts_pc, plain_pc, temp_dirs>>
    /\ UNCHANGED <<params, history, reasoning, rubric, sandbox, pure, request, mcts_iter,
                   llm_calls, steps, plain_log, videos>>

\* on_node / on_answer of the request: ask_question passes none
callback(log, name, n) ==
    IF request.type = "rest_ask" THEN log ELSE send_json(log, name, n)

\* ---- tree.search() as the endpoint sees it: its awaits and its callbacks
\* search(): the root is created and handed to on_node
MctsRoot ==
    /\ engine = "server"
    /\ mcts_pc = "root"
    /\ sent' = callback(sent, "node_update", 0)
    /\ mcts_pc' = IF LoopGoesOn(0, max_iterations) THEN "expand" ELSE "synthesize"
    /\ UNCHANGED <<params, history, reasoning, rubric, sandbox, pure, videos, temp_dirs, request, ws_pc,
                   mcts_iter, plain_pc, llm_calls, steps, plain_log>>

\* search(): 1. SELECT and 2. EXPAND (the policy call and the executions,
\* when the leaf is expanded) have returned
MctsExpand ==
    /\ engine = "server"
    /\ mcts_pc = "expand"
    /\ mcts_pc' = "evaluate"
    /\ UNCHANGED <<params, history, reasoning, rubric, sandbox, pure, videos, temp_dirs, request, ws_pc, sent,
                   mcts_iter, plain_pc, llm_calls, steps, plain_log>>

\* search(): 3. EVALUATE has returned, 4. BACKPROPAGATE
MctsEvaluate ==
    /\ engine = "server"
    /\ mcts_pc = "evaluate"
    /\ mcts_pc' = "emit"
    /\ UNCHANGED <<params, history, reasoning, rubric, sandbox, pure, videos, temp_dirs, request, ws_pc, sent,
                   mcts_iter, plain_pc, llm_calls, steps, plain_log>>

\* search(): 5. STREAM, and the loop test
MctsEmit ==
    /\ engine = "server"
    /\ mcts_pc = "emit"
    /\ sent' = callback(sent, "node_update", mcts_iter + 1)
    /\ mcts_iter' = mcts_iter + 1
    /\ mcts_pc' = IF LoopGoesOn(mcts_iter + 1, max_iterations)
                  THEN "expand" ELSE "synthesize"
    /\ UNCHANGED <<params, history, reasoning, rubric, sandbox, pure, videos, temp_dirs, request, ws_pc,
                   plain_pc, llm_calls, steps, plain_log>>

\* search(): _synthesize_answer has returned
MctsSynthesize ==
    /\ engine = "server"
    /\ mcts_pc = "synthesize"
    /\ mcts_pc' = "answer"
    /\ UNCHANGED <<params, history, reasoning, rubric, sandbox, pure, videos, temp_dirs, request, ws_pc, sent,
                   mcts_iter, plain_pc, llm_calls, steps, plain_log>>

\* search(): on_answer, then return
MctsOnAnswer ==
    /\ engine = "server"
    /\ mcts_pc = "answer"
    /\ sent' = callback(sent, "answer_ready", 0)
    /\ mcts_pc' = "return"
    /\ UNCHANGED <<params, history, reasoning, rubric, sandbox, pure, videos, temp_dirs, request, ws_pc,
                   mcts_iter, plain_pc, llm_calls, steps, plain_log>>

\* the policy, the judge or the synthesizer raises (none of them catches
\* what the client library raises), and search() raises with it
MctsRaise ==
    /\ engine = "server"
    /\ mcts_pc \in {"expand", "evaluate", "synthesize"}
    /\ mcts_pc' = "raised"
    /\ UNCHANGED <<params, history, reasoning, rubric, sandbox, pure, videos, temp_dirs, request, ws_pc, sent,
                   mcts_iter, plain_pc, llm_calls, steps, plain_log>>

\* ---- plain_rlm_search
\* what execute_async can return: success, and whether stdout.strip() is
\* not empty
ExecResults == [success : BOOLEAN, output : BOOLEAN]

PlainRLMStep(n, r) == [step_number |-> n, success |-> r.success, output |-> r.output]

\* mutant of needs_followup: a follow-up is always attempted
needs_followup_always(r) == TRUE

\* needs_followup = not result.success or not result.stdout.strip()
needs_followup(r) == ~r.success \/ ~r.output

\* Step 1: the policy call; without a code block the reply is returned
PlainPolicy ==
    /\ engine = "server"
    /\ plain_pc = "policy"
    /\ llm_calls' = llm_calls + 1
    /\ plain_log' = Append(plain_log, "policy")
    /\ \E code_blocks \in BOOLEAN :
          plain_pc' = IF code_blocks THEN "execute1" ELSE "return"
    /\ UNCHANGED <<params, history, reasoning, rubric, sandbox, pure, videos, temp_dirs, request, ws_pc, sent,
                   mcts_pc, mcts_iter, steps>>

\* Step 2: execute_async(code_blocks[0]), steps.append(step1)
PlainExecute ==
    /\ engine = "server"
    /\ plain_pc = "execute1"
    /\ \E r \in ExecResults : steps' = Append(steps, PlainRLMStep(1, r))
    /\ plain_log' = Append(plain_log, "execute")
    /\ plain_pc' = "on_step1"
    /\ UNCHANGED <<params, history, reasoning, rubric, sandbox, pure, videos, temp_dirs, request, ws_pc, sent,
                   mcts_pc, mcts_iter, llm_calls>>

\* await on_step(step1), then the test of needs_followup
PlainOnStep ==
    /\ engine = "server"
    /\ plain_pc = "on_step1"
    /\ sent' = send_json(sent, "plain_step", steps[1].step_number)
    /\ plain_log' = Append(plain_log, "step")
    /\ plain_pc' = IF needs_followup(steps[1]) THEN "followup" ELSE "synthesize"
    /\ UNCHANGED <<params, history, reasoning, rubric, sandbox, pure, videos, temp_dirs, request, ws_pc,
                   mcts_pc, mcts_iter, llm_calls, steps>>

\* Step 3: the follow-up policy call
PlainFollowup ==
    /\ engine = "server"
    /\ plain_pc = "followup"
    /\ llm_calls' = llm_calls + 1
    /\ plain_log' = Append(plain_log, "policy")
    /\ \E followup_blocks \in BOOLEAN :
          plain_pc' = IF followup_blocks THEN "execute2" ELSE "synthesize"
    /\ UNCHANGED <<params, history, reasoning, rubric, sandbox, pure, videos, temp_dirs, request, ws_pc, sent,
                   mcts_pc, mcts_iter, steps>>

\* execute_async(followup_blocks[0]), steps.append(step2)
PlainExecuteFollowup ==
    /\ engine = "server"
    /\ plain_pc = "execute2"
    /\ \E r \in ExecResults : steps' = Append(steps, PlainRLMStep(2, r))
    /\ plain_log' = Append(plain_log, "execute")
    /\ plain_pc' = "on_step2"
    /\ UNCHANGED <<params, history, reasoning, rubric, sandbox, pure, videos, temp_dirs, request, ws_pc, sent,
                   mcts_pc, mcts_iter, llm_calls>>

\* await on_step(step2)
PlainOnStepFollowup ==
    /\ engine = "server"
    /\ plain_pc = "on_step2"
    /\ sent' = send_json(sent, "plain_step", steps[2].step_number)
    /\ plain_log' = Append(plain_log, "step")
    /\ plain_pc' = "synthesize"
    /\ UNCHANGED <<params, history, reasoning, rubric, sandbox, pure, videos, temp_dirs, request, ws_pc,
                   mcts_pc, mcts_iter, llm_calls, steps>>

\* Step 4: the synthesis call
PlainSynthesize ==
    /\ engine = "server"
    /\ plain_pc = "synthesize"
    /\ llm_calls' = llm_calls + 1
    /\ plain_log' = Append(plain_log, "synthesis")
    /\ plain_pc' = "judge"
    /\ UNCHANGED <<params, history, reasoning, rubric, sandbox, pure, videos, temp_dirs, request, ws_pc, sent,
                   mcts_pc, mcts_iter, steps>>

\* Step 5: evaluate_node on the answer, then return
PlainJudge ==
    /\ engine = "server"
    /\ plain_pc = "judge"
    /\ llm_calls' = llm_calls + 1
    /\ plain_log' = Append(plain_log, "judge")
    /\ plain_pc' = "return"
    /\ UNCHANGED <<params, history, reasoning, rubric, sandbox, pure, videos, temp_dirs, request, ws_pc, sent,
                   mcts_pc, mcts_iter, steps>>

\* one of the four awaited calls raises; plain_rlm_search catches nothing
PlainRaise ==
    /\ engine = "server"
    /\ plain_pc \in {"policy", "followup", "synthesize", "judge"}
    /\ plain_pc' = "raised"
    /\ UNCHANGED <<params, history, reasoning, rubric, sandbox, pure, videos, temp_dirs, request, ws_pc, sent,
                   mcts_pc, mcts_iter, llm_calls, steps, plain_log>>

\* ---- the endpoint after its searches
\* ask: tree.search() has returned, search_complete (or the AskResponse of
\* POST /ask) is sent
SearchComplete ==
    /\ engine = "server"
    /\ ws_pc = "search"
    /\ mcts_pc = "return"
    /\ sent' = IF request.type = "rest_ask" THEN send_json(sent, "http", 200)
               ELSE send_json(sent, "search_complete", 0)
    /\ mcts_pc' = "done"
    /\ ws_pc' = "receive"
    /\ UNCHANGED <<params, history, reasoning, rubric, sandbox, pure, videos, temp_dirs, request, mcts_iter,
                   plain_pc, llm_calls, steps, plain_log>>

\* ask: except Exception around tree.search(); POST /ask answers 500
SearchFailed ==
    /\ engine = "server"
    /\ ws_pc = "search"
    /\ mcts_pc = "raised"
    /\ sent' = IF request.type = "rest_ask" THEN send_json(sent, "http", 500)
               ELSE send_json(sent, "error", 0)
    /\ ws_pc' = "receive"
    /\ UNCHANGED <<params, history, reasoning, rubric, sandbox, pure, videos, temp_dirs, request, mcts_pc,
                   mcts_iter, plain_pc, llm_calls, steps, plain_log>>

\* mutant of GatherDone: the result is taken as soon as one search returned
GatherDoneEither(p, m) == p = "return" \/ m = "return"

\* asyncio.gather(plain_rlm_search(...), mcts_tree.search(...)) has a result
\* when both have returned
GatherDone(p, m) == p = "return" /\ m = "return"

\* asyncio.gather without return_exceptions: the first exception of either
\* search is raised to the endpoint at once; the other search is left running
GatherRaised(p, m) == p = "raised" \/ m = "raised"

\* compare: both searches have returned, comparison_complete is sent
CompareComplete ==
    /\ engine = "server"
    /\ ws_pc = "gather"
    /\ GatherDone(plain_pc, mcts_pc)
    /\ ~GatherRaised(plain_pc, mcts_pc)
    /\ sent' = send_json(sent, "comparison_complete", 0)
    /\ ws_pc' = "receive"
    /\ UNCHANGED <<params, history, reasoning, rubric, sandbox, pure, videos, temp_dirs, request, mcts_pc,
                   mcts_iter, plain_pc, llm_calls, steps, plain_log>>

\* compare: except Exception around asyncio.gather
CompareFailed ==
    /\ engine = "server"
    /\ ws_pc = "gather"
    /\ GatherRaised(plain_pc, mcts_pc)
    /\ sent' = send_json(sent, "error", 0)
    /\ ws_pc' = "receive"
    /\ UNCHANGED <<params, history, reasoning, rubric, sandbox, pure, videos, temp_dirs, request, mcts_pc,
                   mcts_iter, plain_pc, llm_calls, steps, plain_log>>

ServeInit ==
    /\ engine = "server"
    /\ max_depth = 0
    /\ EngineInit
    /\ SandboxInit
    /\ PureInit
    /\ request \in Requests
    /\ ws_pc = "dispatch"
    /\ sent = <<>>
    /\ mcts_pc = "off"
    /\ mcts_iter = 0
    /\ plain_pc = "off"
    /\ llm_calls = 0
    /\ steps = <<>>
    /\ plain_log = <<>>
    /\ videos \in Stores
    /\ temp_dirs = 0

ServeNext ==
    \/ Dispatch
    \/ MctsRoot
    \/ MctsExpand
    \/ MctsEvaluate
    \/ MctsEmit
    \/ MctsSynthesize
    \/ MctsOnAnswer
    \/ MctsRaise
    \/ PlainPolicy
    \/ PlainExecute
    \/ PlainOnStep
    \/ PlainFollowup
    \/ PlainExecuteFollowup
    \/ PlainOnStepFollowup
    \/ PlainSynthesize
    \/ PlainJudge
    \/ PlainRaise
    \/ SearchComplete
    \/ SearchFailed
    \/ CompareComplete
    \/ CompareFailed

SpecServe == ServeInit /\ [][ServeNext]_vars

Next ==
    \/ Start
    \/ Select
    \/ ExpandPolicy
    \/ ExecuteAsync
    \/ WorkerFinish
    \/ ExpandChildCompleted
    \/ ExpandChildTimedOut
    \/ ExpandChildPlain
    \/ Evaluate
    \/ Backpropagate
    \/ Emit
    \/ Synthesize
    \/ OnAnswer
    \/ RubricSelect
    \/ CreateAndEvaluate
    \/ RubricBackpropagate
    \/ RubricFinish

Spec == Init /\ [][Next]_vars

\* Fairness of search(): every step of the engine and the timer of
\* execute_async are taken when they can be; the executed code itself
\* (WorkerFinish) need never finish.
EngineStep ==
    \/ Start \/ Select \/ ExpandPolicy \/ ExecuteAsync \/ ExpandChildCompleted
    \/ ExpandChildTimedOut \/ ExpandChildPlain \/ Evaluate \/ Backpropagate
    \/ Emit \/ Synthesize \/ OnAnswer
    \/ RubricSelect \/ CreateAndEvaluate \/ RubricBackpropagate \/ RubricFinish

LiveInit == Init /\ max_iterations <= MaxLiveIterations

LiveSpec == LiveInit /\ [][Next]_vars /\ WF_vars(EngineStep)

TypeOK ==
    /\ pc \in {"off", "start", "select", "expand", "child", "executing", "evaluate",
              "backpropagate", "emit", "synthesize", "answer", "done"}
    /\ rpc \in {"off", "select", "create", "executing", "backpropagate", "finish",
               "done"}

\* ============================================================== properties
Count(seq, x) == Cardinality({k \in 1..Len(seq) : seq[k] = x})
SetMin(S) == CHOOSE x \in S : \A y \in S : x <= y

RECURSIVE PathToRoot(_, _)
\* the ids on the parent chain from nid up to the root, both included
PathToRoot(tree, nid) ==
    IF nid = None THEN {} ELSE {nid} \cup PathToRoot(tree, tree[nid].parent_id)

\* C1: in both engines every non-root node's id occurs exactly once in the
\* children list of the node its parent_id names and in no other children
\* list, and every id in a children list is a key of the node map.
TreeLinked ==
    /\ \A i \in DOMAIN nodes :
          /\ \A k \in 1..Len(nodes[i].children) :
                nodes[i].children[k] \in DOMAIN nodes
          /\ nodes[i].parent_id # None =>
                /\ nodes[i].parent_id \in DOMAIN nodes
                /\ \A p \in DOMAIN nodes :
                      Count(nodes[p].children, i)
                          = IF p = nodes[i].parent_id THEN 1 ELSE 0
    /\ \A i \in DOMAIN rnodes :
          /\ \A k \in 1..Len(rnodes[i].children_ids) :
                rnodes[i].children_ids[k] \in DOMAIN rnodes
          /\ rnodes[i].parent_id # None =>
                /\ rnodes[i].parent_id \in DOMAIN rnodes
                /\ \A p \in DOMAIN rnodes :
                      Count(rnodes[p].children_ids, i)
                          = IF p = rnodes[i].parent_id THEN 1 ELSE 0

\* C1 witness: after two iterations the transcript tree holds an answer node
\* below a code node that has a sibling
TreeLinkedWitness ==
    /\ engine = "reasoning"
    /\ iter >= 2
    /\ \E i \in DOMAIN nodes :
          /\ nodes[i].node_type = "answer"
          /\ Len(nodes[nodes[nodes[i].parent_id].parent_id].children) >= 2

\* C2: a back-propagation step adds 1 to visits and the evaluator's value to
\* total_value on exactly the nodes from the evaluated leaf up to the root;
\* no other step changes visits or total_value of a node; new nodes start at
\* visits = 0 and total_value = 0; each iteration holds one such step.
StatsOnlyByBackprop ==
    [][engine = "reasoning" =>
          /\ \A i \in DOMAIN nodes' \ DOMAIN nodes :
                nodes'[i].visits = 0 /\ nodes'[i].total_value = 0
          /\ DOMAIN nodes \subseteq DOMAIN nodes'
          /\ IF pc = "backpropagate"
             THEN /\ {leaf_id, RootId} \subseteq PathToRoot(nodes, leaf_id)
                  /\ \A i \in DOMAIN nodes :
                        LET d == IF i \in PathToRoot(nodes, leaf_id) THEN 1 ELSE 0
                        IN /\ nodes'[i].visits = nodes[i].visits + d
                           /\ nodes'[i].total_value
                                  = nodes[i].total_value + d * value
             ELSE \A i \in DOMAIN nodes :
                     /\ nodes'[i].visits = nodes[i].visits
                     /\ nodes'[i].total_value = nodes[i].total_value
          /\ iter' # iter => iter' = iter + 1 /\ calls.backprop = iter + 1
    ]_vars

\* C2 witness: a back-propagation has just run from a leaf two levels below
\* the root while a node off the path is still unvisited
StatsOnlyByBackpropWitness ==
    /\ engine = "reasoning"
    /\ pc = "emit"
    /\ nodes[leaf_id].depth >= 2
    /\ nodes[leaf_id].total_value > 0
    /\ \E i \in DOMAIN nodes : nodes[i].visits = 0

\* C3: the snapshot emitted in the k-th iteration shows the root with
\* visits = k and the focal node with visits >= 1; it is emitted after the
\* one back-propagation of that iteration, for every k up to max_iterations.
SnapshotShowsIteration ==
    engine = "reasoning" /\ pc # "start" =>
        /\ emitted.count = iter + 1
        /\ calls.backprop = iter + (IF pc = "emit" THEN 1 ELSE 0)
        /\ iter >= 1 => emitted.root_visits = iter /\ emitted.node_visits >= 1
        /\ pc \in {"synthesize", "answer", "done"} => iter = max_iterations

\* C3 witness: the second iteration has emitted the snapshot of a fresh leaf
SnapshotShowsIterationWitness ==
    /\ engine = "reasoning"
    /\ pc = "select"
    /\ iter = 2
    /\ emitted.root_visits = 2
    /\ emitted.node_visits = 1
    /\ emitted.node # RootId

\* C4: at every node with children, the child _select descends to is the
\* first unvisited child whenever there is one; a visited child is chosen
\* only when every child is visited.
UnvisitedChildFirst ==
    engine = "reasoning" =>
        \A n \in DOMAIN nodes :
            nodes[n].children # <<>> =>
                LET cs == nodes[n].children
                    unvisited == {k \in 1..Len(cs) : nodes[cs[k]].visits = 0}
                    chosen == BestChild(nodes, n)
                IN /\ unvisited # {} => chosen = cs[SetMin(unvisited)]
                   /\ nodes[chosen].visits > 0 => unvisited = {}

\* C4 witness: selection is about to descend from a node whose first child
\* is visited with full value and whose second child is unvisited
UnvisitedChildFirstWitness ==
    /\ engine = "reasoning"
    /\ pc = "select"
    /\ LET cs == nodes[RootId].children
       IN /\ Len(cs) >= 2
          /\ nodes[cs[1]].visits > 0
          /\ nodes[cs[1]].total_value = 10
          /\ nodes[cs[2]].visits = 0

SearchRunsItsBudget ==
    /\ (engine = "reasoning") => <>(pc = "done")
    /\ [](engine = "reasoning" =>
            /\ calls.evaluate <= max_iterations
            /\ calls.backprop <= max_iterations
            /\ calls.on_answer = (IF pc = "done" THEN 1 ELSE 0)
            /\ result.answer # "" <=> pc \in {"answer", "done"}
            /\ calls.synthesize <= (IF pc \in {"answer", "done"} THEN 1 ELSE 0)
            /\ pc \in {"synthesize", "answer", "done"} =>
                  /\ calls.evaluate = max_iterations
                  /\ calls.backprop = max_iterations)

\* C6 witness: a search of two iterations has returned after synthesis
SearchRunsItsBudgetWitness ==
    /\ engine = "reasoning"
    /\ pc = "done"
    /\ max_iterations = 2
    /\ calls.evaluate = 2
    /\ calls.synthesize = 1
    /\ calls.on_answer = 1

\* C10: when the timeout expires while the code is still running, the code
\* child is registered with empty stdout, stderr "timed out" and an error
\* summary, and the iteration goes on to its evaluation and back-propagation.
TimeoutDoesNotStall ==
    /\ [][pc = "executing" /\ worker = "running" /\ pc' # "executing" =>
             LET cid == make_id(nodes)
             IN /\ cid \in DOMAIN nodes'
                /\ nodes'[cid].node_type = "code"
                /\ nodes'[cid].repl_stdout = ""
                /\ nodes'[cid].repl_stderr = "timed out"
                /\ nodes'[cid].content = "error"
                /\ Count(nodes'[leaf_id].children, cid) = 1]_vars
    /\ \A k \in 0..MaxIterations :
          (pc = "executing" /\ iter = k)
              ~> (pc = "emit" /\ iter = k /\ calls.evaluate = k + 1
                    /\ calls.backprop = k + 1)

\* C10 witness: a code node whose execution timed out has been evaluated and
\* back-propagated and the search has moved on to the next iteration
TimeoutDoesNotStallWitness ==
    /\ engine = "reasoning"
    /\ pc = "select"
    /\ \E i \in DOMAIN nodes :
          /\ nodes[i].timed_out
          /\ nodes[i].repl_stderr = "timed out"
          /\ nodes[i].visits = 1
          /\ emitted.node = i

\* ------------------------------------------------------------------ sandbox
\* C7: a variable assigned by an execute call that completes without exception
\* is visible with the value it was given to the later execute calls, and a
\* variable keeps its value until code assigns it again: when an invocation
\* ends successfully, every name its code assigned is bound to the assigned
\* value in the namespace later calls start from, and every other name is
\* bound as before.
AssignedVariablesPersist ==
    [][\A w \in DOMAIN threads :
          (/\ threads[w].status = "running"
           /\ threads'[w].status = "done"
           /\ threads[w].success)
          => \A n \in Names :
                Combined(repl_globals', repl_locals')[n] =
                    IF n \in threads[w].wrote
                    THEN threads[w].combined[n]
                    ELSE Combined(repl_globals, repl_locals)[n]]_vars

\* C8: after any sequence of execute calls `context` still holds the
\* transcript given at construction and context_length is unchanged.
ContextImmutable ==
    /\ repl_locals["context"] = Transcript
    /\ context_length(repl_locals) = TranscriptLen

\* C9: within one execute invocation the first max_llm_calls calls of
\* llm_query, and no others, reach the model: an invocation that has called
\* llm_query k times has reached the model min(k, 3) times.
LlmBudgetPerExecute ==
    \A w \in DOMAIN threads :
        threads[w].reached = Min(threads[w].asked, max_llm_calls)

\* the invocation w was reported as timed out and its thread has not ended
Abandoned(w) ==
    /\ w \in DOMAIN returned
    /\ returned[w] = TimedOutResult
    /\ threads[w].status # "done"

\* this step is a step of the thread of invocation w
StepOf(w) ==
    \/ threads'[w].pos # threads[w].pos
    \/ threads'[w].status # threads[w].status

\* C11: once execute_async has reported a timeout, no step of the abandoned
\* worker changes the persistent variables, writes into the captured stdout
\* of a later execution, or changes the llm_query count while a later
\* execution is running.
AbandonedWorkerHasNoEffect ==
    [][\A w \in DOMAIN threads :
          (Abandoned(w) /\ StepOf(w))
          => /\ repl_locals' = repl_locals
             /\ \A v \in DOMAIN threads :
                   v > w => threads'[v].stdout_buf = threads[v].stdout_buf
             /\ (\E v \in DOMAIN threads : v > w /\ threads[v].status = "running")
                   => llm_call_count' = llm_call_count]_vars

\* C12: code that imports a module outside the allowlist ends with
\* success = false and the module is not bound in the namespace.
ImportsOutsideAllowlistFail ==
    /\ repl_globals \subseteq ALLOWED_MODULES
    /\ \A w \in DOMAIN threads :
          (threads[w].status = "done" /\ ~(threads[w].imports \subseteq ALLOWED_MODULES))
          => ~threads[w].success

RECURSIVE Chars(_)
\* the number of characters of a captured output: print() writes str(v) and
\* a newline for each value
Chars(buf) == IF buf = <<>> THEN 0 ELSE len(Head(buf)) + 1 + Chars(Tail(buf))

\* C13: every result returned by execute / execute_async has a stdout of at
\* most 2000 characters and every variable repr of at most 200 characters.
ReturnedOutputBounded ==
    \A k \in DOMAIN returned :
        /\ Chars(returned[k].stdout) <= StdoutLimit
        /\ \A n \in Names : returned[k].locals_snapshot[n] <= ReprLimit

\* C14: for every executed code node whose execution has ended, the answer
\* child is there exactly when the code holds a marker FINAL_VAR(name) and
\* name is bound when the execution ends, and its content is the string form
\* of that value.
FinalVarMakesAnswer ==
    \A w \in DOMAIN answer_children :
        threads[w].status = "done"
        => answer_children[w] =
              IF marker(threads[w].code) # "" /\ threads[w].end_value # Unbound
              THEN str(threads[w].end_value)
              ELSE NoAnswer

\* C15: every scalar returned by an evaluator lies in [0, 1]: the score of
\* evaluate_node (in tenths) and the five signals of compute_rewards and
\* their composite (in hundredths).
ScalarsInUnitInterval ==
    ret.done =>
        IF args.fn = "evaluate_node"
        THEN ret.score \in 0..10
        ELSE IF args.fn = "iteration_reward"
        THEN ret.value \in 0..One
        ELSE args.fn = "compute_rewards"
             => /\ ret.generalization \in 0..One
                /\ ret.calibration \in 0..One
                /\ ret.discrimination \in 0..One
                /\ ret.validity \in 0..One
                /\ ret.iteration \in 0..One
                /\ ret.composite \in 0..One

\* C15 witness: compute_rewards has returned for a rubric whose error is more
\* than 1.3 times its parent's, where the cut of iteration_reward at 0 is needed
ScalarsInUnitIntervalWitness ==
    /\ ret.done
    /\ args.fn = "compute_rewards"
    /\ args.parent_mae = 50
    /\ mae(args.train_results) = One
    /\ ret.iteration = 0
    /\ ret.validity > 0

\* the nodes the claim names as candidates
NamedCandidates ==
    {i \in DOMAIN nodes :
        /\ nodes[i].visits > 0
        /\ \/ nodes[i].node_type = "answer"
           \/ nodes[i].node_type = "code" /\ nodes[i].repl_stdout # ""}

EventsNamed(name) == SelectSeq(sent, LAMBDA e : e.event = name)

\* C17: plain_rlm_search makes at most 4 LLM calls (at most 2 policy calls,
\* 1 synthesis call, 1 judge call) and at most 2 executions; the follow-up
\* policy call and the second execution happen only if the first execution
\* failed or printed nothing; every execution is followed by exactly one
\* plain_step event before the next LLM call, and the events are numbered
\* 1, then 2.
PlainPipelineBounded ==
    /\ llm_calls <= 4
    /\ llm_calls = Count(plain_log, "policy") + Count(plain_log, "synthesis")
                     + Count(plain_log, "judge")
    /\ Count(plain_log, "policy") <= 2
    /\ Count(plain_log, "synthesis") <= 1
    /\ Count(plain_log, "judge") <= 1
    /\ Count(plain_log, "execute") <= 2
    /\ Len(steps) = Count(plain_log, "execute")
    /\ (Count(plain_log, "policy") = 2 \/ Count(plain_log, "execute") = 2)
          => ~steps[1].success \/ ~steps[1].output
    /\ \A i \in DOMAIN plain_log :
          /\ plain_log[i] = "execute" /\ i < Len(plain_log)
                => plain_log[i + 1] = "step"
          /\ plain_log[i] = "step" => i > 1 /\ plain_log[i - 1] = "execute"
    /\ LET ps == EventsNamed("plain_step")
       IN /\ Len(ps) = Count(plain_log, "step")
          /\ \A k \in DOMAIN ps : ps[k].n = k

\* C17 witness: a pipeline that returned after four LLM calls and two
\* executions, the first of which succeeded without output
PlainPipelineBoundedWitness ==
    /\ plain_pc = "return"
    /\ llm_calls = 4
    /\ Len(steps) = 2
    /\ steps[1].success /\ ~steps[1].output
    /\ Len(EventsNamed("plain_step")) = 2

\* ------------------------------------------------------------------ C18
Valid == request.question /\ build_full_text(request.video_ids, videos) # {}

\* C18: in a compare request in which neither search raises,
\* comparison_complete is sent exactly once, as the last event and after both
\* searches have returned; a node_update precedes it, and a plain_step
\* precedes it when the plain pipeline executed a code block.
ComparisonCompleteLast ==
    (request.type = "compare" /\ plain_pc # "raised" /\ mcts_pc # "raised")
    => /\ Len(EventsNamed("comparison_complete")) <= 1
       /\ (ws_pc = "receive" /\ Valid)
             => Len(EventsNamed("comparison_complete")) = 1
       /\ \A i \in DOMAIN sent :
             sent[i].event = "comparison_complete"
             => /\ i = Len(sent)
                /\ plain_pc = "return" /\ mcts_pc = "return"
                /\ \E j \in 1..(i - 1) : sent[j].event = "node_update"
                /\ Count(plain_log, "execute") > 0
                      => \E j \in 1..(i - 1) : sent[j].event = "plain_step"

\* C18 witness: comparison_complete has been sent after events of the two
\* searches that interleave: a plain_step lies between two node_updates
ComparisonCompleteLastWitness ==
    /\ request.type = "compare"
    /\ Len(EventsNamed("comparison_complete")) = 1
    /\ \E i, j, k \in DOMAIN sent :
          /\ i < j /\ j < k
          /\ sent[i].event = "node_update"
          /\ sent[j].event = "plain_step"
          /\ sent[k].event = "node_update"

\* ------------------------------------------------------------------ C19
Finished(p) == p \in {"return", "raised"}

\* C19: when one of the two searches of a compare request raises, at most
\* one error event is sent, and the endpoint does not leave the request while
\* the other search is still running: the other search is awaited until it
\* has finished.
OtherEngineDrained ==
    (request.type = "compare" /\ (plain_pc = "raised" \/ mcts_pc = "raised"))
    => /\ Len(EventsNamed("error")) <= 1
       /\ ws_pc = "receive" => Finished(plain_pc) /\ Finished(mcts_pc)

\* ------------------------------------------------------------------ C20
IsPrefix(a, b) == Len(a) <= Len(b) /\ \A i \in DOMAIN a : a[i] = b[i]

Front(seq) == SubSeq(seq, 1, Len(seq) - 1)

\* the events of an ask request whose search does not raise
AskEvents ==
    <<Event("search_started", 0)>>
    \o [i \in 1..(max_iterations + 1) |-> Event("node_update", i - 1)]
    \o <<Event("answer_ready", 0), Event("search_complete", 0)>>

EmptyVideoIdsRejected ==
    (request.video_ids = {} /\ ws_pc # "dispatch")
    => /\ request.type = "rest_ask"
             => sent = <<Event("http", 400)>> /\ mcts_pc = "off" /\ temp_dirs = 0
       /\ (request.type = "ask" /\ request.question)
             => /\ sent = <<Event("error", NoTranscriptsLoaded)>>
                /\ mcts_pc = "off"
                /\ temp_dirs = 0

\* ------------------------------------------------------------------ C22
\* the code of invocation w fails: it raises, or imports a module outside
\* the allowlist
CodeFails(w) ==
    \/ ~threads[w].success
    \/ threads[w].exited
    \/ ~(threads[w].imports \subseteq ALLOWED_MODULES)

\* C22: whatever the executed code raises, and when it times out,
\* execute_async returns a result instead of raising, and the result of
\* failing or timed-out code has success = false and a non-empty stderr.
\* (returned[w] is what the w-th call of execute_async gave its caller.)
SandboxFailureIsAResult ==
    \A w \in DOMAIN returned :
        /\ ~returned[w].raised
        /\ (threads[w].status # "done" \/ CodeFails(w))
              => ~returned[w].success /\ returned[w].stderr # ""

\* ------------------------------------------------------------------ C24
\* C24: captured stdout and captured stderr of an execution, which _expand
\* copies onto the code node, are never both non-empty.
StdoutXorStderr ==
    \A w \in DOMAIN returned :
        ~(returned[w].stdout # <<>> /\ returned[w].stderr # "")

\* ------------------------------------------------------------------ C23
\* C23: when a request has terminated (its reply or last event is sent and
\* the endpoint waits for the next message), no temporary directory made by
\* a sandbox of that request is left.
TempDirsReleased == ws_pc = "receive" => temp_dirs = 0

\* ------------------------------------------------------------------ C25
\* C25: when MCTSRubricTree.run has returned and the tree has a child,
\* best_node is a node other than the root whose reward_composite is at least
\* that of every node of the tree, it is the node run returns, and it is the
\* only node of type final.
BestNodeIsArgmaxAndFinal ==
    (rpc = "done" /\ Len(rnodes) > 1)
    => /\ best_node # None
       /\ best_node # RootId
       /\ run_result(best_node) = best_node
       /\ \A i \in DOMAIN rnodes :
             /\ rnodes[i].reward_composite <= rnodes[best_node].reward_composite
             /\ rnodes[i].node_type = "final" <=> i = best_node

\* C25 witness: run has returned a best node that was not the first child
\* created, in a tree that holds a child of smaller composite reward
BestNodeIsArgmaxAndFinalWitness ==
    /\ rpc = "done"
    /\ best_node # None
    /\ best_node > RootId + 1
    /\ rnodes[best_node].node_type = "final"
    /\ \E i \in DOMAIN rnodes :
          i # RootId /\ rnodes[i].reward_composite < rnodes[best_node].reward_composite

\* ------------------------------------------------------------------ C26
\* C26: every call of _expand adds at least 1 and at most 3 children,
\* whatever the policy replied.
ExpandAddsOneToThree ==
    (ret.done /\ args.fn = "parse_hypotheses")
    => Len(ret.children) >= 1 /\ Len(ret.children) <= 3

\* ------------------------------------------------------------------ C28
\* C28: iteration_reward is 1 - current_mae, clamped, without a parent MAE,
\* and 0.3 + 0.7 (parent_mae - current_mae) / parent_mae, clamped to [0, 1],
\* for every parent_mae > 0, improvement and regression alike; parent 0.30
\* and child 0.15 give 0.65.  (In hundredths; the errors drawn make every
\* quotient exact.)
IterationRewardAsSpecified ==
    (ret.done /\ args.fn = "iteration_reward" /\ args.parent_mae # 0)
    => /\ args.parent_mae = NoMae => ret.value = clamp(One - args.current_mae)
       /\ args.parent_mae > 0
             => ret.value * args.parent_mae
                  = clamp(30 + (70 * (args.parent_mae - args.current_mae))
                                  \div args.parent_mae) * args.parent_mae
       /\ (args.parent_mae = 30 /\ args.current_mae = 15) => ret.value = 65

\* ------------------------------------------------------------------ C29
Perfect(results) == \A k \in DOMAIN results : results[k][1] = results[k][2]

\* C29 as stated: for every pair (train_results, eval_results) whose
\* predictions equal the actual scores, compute_rewards yields
\* generalization = 1.0 and discrimination >= 0.99.
PerfectPredictionsRewarded ==
    (ret.done /\ args.fn = "compute_rewards"
       /\ Perfect(args.train_results) /\ Perfect(args.eval_results))
    => ret.generalization = One /\ ret.discrimination >= 99

\* C29 amended: the same for pairs with at least three train results and at
\* least one eval result; with fewer than three train results discrimination
\* is 0, and with no train or no eval result generalization is 0.
PerfectPredictionsRewardedOnEnoughData ==
    (ret.done /\ args.fn = "compute_rewards"
       /\ Perfect(args.train_results) /\ Perfect(args.eval_results))
    => /\ (args.train_results # <<>> /\ args.eval_results # <<>>)
             <=> ret.generalization = One
       /\ (args.train_results = <<>> \/ args.eval_results = <<>>)
             => ret.generalization = 0
       /\ Len(args.train_results) >= 3 => ret.discrimination = One
       /\ Len(args.train_results) < 3 => ret.discrimination = 0

\* C29 witness: compute_rewards has returned for three perfect train results
\* of different actual scores and one perfect eval result
PerfectPredictionsRewardedWitness ==
    /\ ret.done
    /\ args.fn = "compute_rewards"
    /\ Perfect(args.train_results) /\ Perfect(args.eval_results)
    /\ Len(args.train_results) = 3 /\ args.eval_results # <<>>
    /\ \E j, k \in DOMAIN args.train_results :
          args.train_results[j][2] # args.train_results[k][2]
    /\ ret.generalization = One
    /\ ret.discrimination = One

\* C27: eval examples are never exposed to rubric code: whatever code
\* execute_rubric runs, the code is given no eval response and no eval score,
\* and none of them is in the stdout of the result.
EvalExamplesHidden ==
    (ret.done /\ args.fn = "execute_rubric")
    => /\ ret.observed \cap EvalFields = {}
       /\ ret.stdout \cap EvalFields = {}

\* C30: the sandbox executions of the two engines do not interfere: the
\* stdout of every execution that has returned holds the line its own code
\* printed and nothing else, and when no execution is in flight sys.stdout
\* and sys.stderr are the streams of the process.
SandboxesDoNotInterfere ==
    engine = "sandboxes"
    => /\ \A w \in DOMAIN threads :
             threads[w].status = "done" => threads[w].stdout = <<w>>
       /\ (\A r \in Repls : ~InFlight(r))
             => sys_stdout = 0 /\ sys_stderr = 0

\* C31: rubric code that never terminates cannot stall the rubric search:
\* MCTSRubricTree.run always completes its iterations and returns.
RubricRunCompletes == (engine = "rubric") ~> (rpc = "done")

\* C32: each iteration of search evaluates exactly one node: the first child
\* the expansion created if it created any, otherwise the selected leaf; the
\* other children created keep visits = 0 and total_value = 0, and the
\* back-propagation changes no node off the path of the evaluated node.
OneNodeEvaluatedPerIteration ==
    /\ [](engine = "reasoning" =>
            /\ calls.evaluate
                  = iter + (IF pc \in {"backpropagate", "emit"} THEN 1 ELSE 0)
            /\ pc = "expand" => nodes[leaf_id].children = <<>>)
    /\ [][/\ (pc = "select" /\ pc' = "evaluate")
               => leaf_id' = select(nodes, RootId)
          /\ (pc = "expand" /\ pc' = "evaluate") => leaf_id' = leaf_id
          /\ (pc \in {"child", "executing"} /\ pc' = "evaluate")
               => /\ nodes'[leaf_id].children[1] = leaf_id'
                  /\ \A k \in 2..Len(nodes'[leaf_id].children) :
                        LET c == nodes'[leaf_id].children[k]
                        IN nodes'[c].visits = 0 /\ nodes'[c].total_value = 0
          /\ (pc = "evaluate" /\ pc' # "evaluate")
               => /\ pc' = "backpropagate"
                  /\ leaf_id' = leaf_id
                  /\ value' \in evaluate_node(nodes[leaf_id])
          /\ (pc = "backpropagate" /\ pc' # "backpropagate")
               => \A i \in DOMAIN nodes :
                     IF i \in PathToRoot(nodes, leaf_id)
                     THEN nodes'[i].visits = nodes[i].visits + 1
                     ELSE /\ nodes'[i].visits = nodes[i].visits
                          /\ nodes'[i].total_value = nodes[i].total_value
         ]_vars

\* C32 witness: an iteration whose expansion created two children has
\* back-propagated: the first child has one visit, the second none
OneNodeEvaluatedPerIterationWitness ==
    /\ engine = "reasoning"
    /\ pc = "emit"
    /\ Len(registered) = 2
    /\ leaf_id = registered[1]
    /\ nodes[registered[1]].visits = 1
    /\ nodes[registered[2]].visits = 0
    /\ nodes[registered[2]].total_value = 0

RECURSIVE BranchPairs(_, _)
\* one (assistant code, user REPL output) pair for each node that carries
\* code on the path from the root to nid, in root-to-nid order
BranchPairs(tree, nid) ==
    IF nid = None THEN <<>>
    ELSE BranchPairs(tree, tree[nid].parent_id)
         \o (IF tree[nid].code # ""
             THEN <<Message("assistant", tree[nid].code, nid),
                    Message("user", <<tree[nid].repl_stdout, tree[nid].repl_stderr>>,
                            nid)>>
             ELSE <<>>)

\* C33: the history passed to the policy for a node n is, in root-to-n order,
\* one (assistant code, user REPL output) pair for each code-bearing node on
\* the path from the root to n and nothing else; the nodes without a stored
\* history are the answer nodes, which receive the history of their nearest
\* ancestor that has one; storing a child's history changes no other one.
HistoryIsBranchPath ==
    /\ [](engine = "reasoning" =>
            /\ \A i \in DOMAIN branch_messages :
                  branch_messages[i] = BranchPairs(nodes, i)
            /\ \A i \in DOMAIN nodes :
                  i \notin DOMAIN branch_messages <=> nodes[i].node_type = "answer")
    /\ [][/\ (pc = "expand" /\ pc' # "expand")
               => /\ messages' = BranchPairs(nodes, leaf_id)
                  /\ leaf_id \notin DOMAIN branch_messages
                       => /\ nodes[leaf_id].parent_id \in DOMAIN branch_messages
                          /\ messages' = branch_messages[nodes[leaf_id].parent_id]
          /\ \A i \in DOMAIN branch_messages :
                i \in DOMAIN branch_messages'
                   /\ branch_messages'[i] = branch_messages[i]
         ]_vars

\* C33 witness: the policy has been called on an answer node, which has no
\* stored history, with the pair of the code node above it
HistoryIsBranchPathWitness ==
    /\ engine = "reasoning"
    /\ pc = "evaluate"
    /\ nodes[leaf_id].node_type = "answer"
    /\ expansions[leaf_id] = 1
    /\ leaf_id \notin DOMAIN branch_messages
    /\ Len(messages) = 2
    /\ messages[1].node = nodes[leaf_id].parent_id
    /\ messages[1].role = "assistant" /\ messages[2].role = "user"

\* ucb_score evaluates log(parent_visits) / visits under a square root when
\* visits is not 0: it raises for parent_visits < 1 (math domain error)
UcbFaults(visits, pv) == visits # 0 /\ (pv < 1 \/ visits < 0)

\* C34: in both engines the parent visit count that selection passes to
\* ucb_score is at least 1 for every node that has children, also when that
\* node has visits = 0, and ucb_score faults for no child.
UcbNeverFaults ==
    /\ \A i \in DOMAIN nodes :
          \A k \in DOMAIN nodes[i].children :
             /\ select_parent_visits(nodes[i]) >= 1
             /\ ~UcbFaults(nodes[nodes[i].children[k]].visits,
                           select_parent_visits(nodes[i]))
    /\ \A i \in DOMAIN rnodes :
          \A k \in DOMAIN rnodes[i].children_ids :
             /\ rubric_parent_visits(rnodes[i]) >= 1
             /\ ~UcbFaults(rnodes[rnodes[i].children_ids[k]].visits,
                           rubric_parent_visits(rnodes[i]))

\* C34 witness: selection has descended from a node that has a child but no
\* visit (a code node with an answer child) and returned that child
UcbNeverFaultsWitness ==
    /\ engine = "reasoning"
    /\ pc = "expand"
    /\ nodes[leaf_id].parent_id # None
    /\ nodes[nodes[leaf_id].parent_id].visits = 0
    /\ nodes[RootId].visits >= 1

\* C35: one iteration of MCTSRubricTree.run adds exactly 1 to the visits of
\* the root, however many children its expansion created: between iterations
\* and after the last one the root has as many visits as iterations are done.
RootVisitsCountIterations ==
    (engine = "rubric" /\ rpc \in {"select", "finish", "done"})
    => rnodes[RootId].visits = riter

\* C36: MCTSRubricTree.run expands only a node that has no children and
\* whose depth is less than max_depth, and no node of the rubric tree is
\* deeper than max_depth.
RubricExpandsOnlyShallowLeaves ==
    /\ [][(rpc = "select" /\ rpc' = "create")
            => /\ rnodes[rleaf'].children_ids = <<>>
               /\ rnodes[rleaf'].depth < max_depth]_vars
    /\ [](engine = "rubric" =>
            \A i \in DOMAIN rnodes : rnodes[i].depth <= max_depth)

\* C37: no node of the transcript tree has a depth greater than max_depth,
\* the answer nodes created by the final-answer marker included.
DepthWithinMaxDepth ==
    engine = "reasoning" => \A i \in DOMAIN nodes : nodes[i].depth <= max_depth

\* What holds in place of C37: every node that is not an answer node has
\* depth at most max_depth; an answer node hangs one level below a code
\* node, so its depth can be max_depth + 1.
DepthExceededOnlyByAnswers ==
    engine = "reasoning" =>
        \A i \in DOMAIN nodes :
           IF nodes[i].node_type = "answer"
           THEN /\ nodes[i].depth <= max_depth + 1
                /\ nodes[nodes[i].parent_id].node_type = "code"
                /\ nodes[i].depth = nodes[nodes[i].parent_id].depth + 1
           ELSE nodes[i].depth <= max_depth

\* C38: an answer child is appended under a code node only when the
\* execution of that node succeeded: a failed or timed-out execution yields
\* no answer child.
AnswerOnlyAfterSuccess ==
    engine = "sandbox" =>
        \A k \in DOMAIN answer_children :
           answer_children[k] # NoAnswer => returned[k].success

\* the invocation w has ended with an exception
EndedWithException(w) ==
    /\ threads[w].status = "done"
    /\ (~threads[w].success \/ threads[w].exited)

\* C39: an execute call whose code raises leaves the bindings of the sandbox
\* as they were before the call: the step that ends such a call changes no
\* variable, and every module bound in the sandbox was imported by a call
\* that did not end with an exception.
FailedExecuteLeavesNoBinding ==
    /\ [][\A w \in DOMAIN threads :
             (/\ threads[w].status = "running"
              /\ threads'[w].status = "done"
              /\ (~threads[w].success \/ threads[w].exited))
             => repl_locals' = repl_locals]_vars
    /\ [](engine = "sandbox" =>
             \A m \in repl_globals :
                \E w \in DOMAIN threads :
                   m \in threads[w].imports /\ ~EndedWithException(w))

\* the events that end a request, and the events the callbacks of the
\* searches send
TerminalEvents == {"search_complete", "comparison_complete", "error"}
EngineEvents == {"node_update", "plain_step", "answer_ready"}

\* C40: on a connection, once the terminal event of a request has been sent
\* (search_complete, comparison_complete or error), no node_update, plain_step
\* or answer_ready of the searches of that request is sent any more.
NoEngineEventAfterTerminal ==
    engine = "server" =>
        \A i, j \in DOMAIN sent :
           (i < j /\ sent[i].event \in TerminalEvents)
           => sent[j].event \notin EngineEvents

====
